---- MODULE Spec2Model ----
(***************************************************************************)
(* The free-text action resolver of the dungeon crawler                    *)
(* (src/zagreus_dungeon.py, class DungeonMaster) as a state machine: an    *)
(* actor state, one call of evaluate_action with its inputs, the random    *)
(* values the call consumed, and what the call returned or raised          *)
(* (specification Spec); and the game around it (class ZagreusGame): the   *)
(* main loop of run with process_node_effects, the time pressure, the      *)
(* checkpoints, the custom actions and the combat loop (specification      *)
(* GameSpec), and handle_custom_action called on its own (specification    *)
(* CustomActionSpec).                                                      *)
(***************************************************************************)
EXTENDS Integers, Sequences, FiniteSets, TLC

VARIABLES
    state,       \* the GameState object the DungeonMaster holds (self.state)
    ai_enabled,  \* DungeonMaster.ai_enabled, fixed at construction
    pc,          \* "idle": no call made yet; "returned" / "raised": the call ended;
                 \* in the game: the place in ZagreusGame.run
    call,        \* the inputs of the call: action text, context, the remote reply
    draws,       \* the values random.randint / random.choice returned, in call order
    result,      \* what evaluate_action returned: (success, description, effects)
    current_node,   \* ZagreusGame.current_node
    saves,          \* the checkpoint files in SAVE_DIR, by their number
    USE_AI_COMBAT,  \* the module flag read from the environment at import
    combat_rounds,  \* the round counter of the combat loop in run
    game            \* the StoryGame object of story_game.py (main: game = StoryGame())

vars == <<state, ai_enabled, pc, call, draws, result,
          current_node, saves, USE_AI_COMBAT, combat_rounds, game>>

---------------------------------------------------------------------------
(* Bounds of the model *)

\* the largest ability score (strength, agility, mind) an actor state carries
MaxAbility == 10
\* random.randint(1, 100) is sampled at RollSamples + 1 evenly spread values
RollSamples == 4
\* a damage draw random.randint(a, b) is sampled at DamageSamples + 1 values
DamageSamples == 1

---------------------------------------------------------------------------
(* Program constants *)

DARKNESS_FAILURE_THRESHOLD == 30
FIND_CHANCE_WITH_LIGHT == 40
FIND_CHANCE_WITHOUT_LIGHT == 10

None == "None"

---------------------------------------------------------------------------
(* Python strings: str.lower, the substring test `kw in text`, str(list) *)

UpperToLower ==
    ("A" :> "a") @@ ("B" :> "b") @@ ("C" :> "c") @@ ("D" :> "d") @@
    ("E" :> "e") @@ ("F" :> "f") @@ ("G" :> "g") @@ ("H" :> "h") @@
    ("I" :> "i") @@ ("J" :> "j") @@ ("K" :> "k") @@ ("L" :> "l") @@
    ("M" :> "m") @@ ("N" :> "n") @@ ("O" :> "o") @@ ("P" :> "p") @@
    ("Q" :> "q") @@ ("R" :> "r") @@ ("S" :> "s") @@ ("T" :> "t") @@
    ("U" :> "u") @@ ("V" :> "v") @@ ("W" :> "w") @@ ("X" :> "x") @@
    ("Y" :> "y") @@ ("Z" :> "z")

LowerChar(c) == IF c \in DOMAIN UpperToLower THEN UpperToLower[c] ELSE c

RECURSIVE lower(_)
lower(s) ==
    IF Len(s) = 0 THEN ""
    ELSE LowerChar(SubSeq(s, 1, 1)) \o lower(SubSeq(s, 2, Len(s)))

\* Python's `kw in text` on strings: kw occurs as a contiguous substring
In(kw, text) ==
    \E i \in 1..(Len(text) - Len(kw) + 1) : SubSeq(text, i, i + Len(kw) - 1) = kw

AnyIn(kws, text) == \E kw \in kws : In(kw, text)

\* str(list_of_strings): "['a', 'b']"
RECURSIVE JoinRepr(_)
JoinRepr(items) ==
    IF Len(items) = 0 THEN ""
    ELSE IF Len(items) = 1 THEN "'" \o items[1] \o "'"
    ELSE "'" \o items[1] \o "', " \o JoinRepr(Tail(items))

str(items) == "[" \o JoinRepr(items) \o "]"

\* Python truthiness of an equipment slot: None and "" are falsy
Truthy(item) == item # None /\ item # ""

max(a, b) == IF a >= b THEN a ELSE b

---------------------------------------------------------------------------
(* GameState.__init__ *)

GameState ==
    [ health |-> 60, max_health |-> 100, stamina |-> 50, max_stamina |-> 100,
      strength |-> 5, agility |-> 5, mind |-> 5,
      hunger |-> 30, wetness |-> 80, temperature |-> 40, sanity |-> 70, fear |-> 20,
      status_effects |->
          [ bleeding |-> 0, poisoned |-> 0, burning |-> 0, infected |-> 0,
            stunned |-> 0, blessed |-> 0, cursed |-> 0, hasted |-> 0, slowed |-> 0 ],
      left_arm |-> TRUE, right_arm |-> TRUE, left_leg |-> TRUE, right_leg |-> TRUE,
      left_eye |-> TRUE, right_eye |-> TRUE,
      inventory |-> <<>>,
      equipped |->
          [ weapon |-> None, light |-> None, armor |-> None,
            accessory |-> None, offhand |-> None ],
      equipment_durability |-> [ weapon |-> 100, armor |-> 100, light |-> 100 ],
      combat_bonus |->
          [ damage |-> 0, defense |-> 0, accuracy |-> 0, critical_chance |-> 0 ],
      location |-> "flooded_cell", turn_count |-> 0,
      visited_nodes |-> {}, node_history |-> <<>>,
      checkpoints |-> <<>>, last_checkpoint_node |-> None,
      action_timer |-> 0, in_timed_scenario |-> FALSE, time_limit |-> 0 ]

---------------------------------------------------------------------------
(* Python dicts and lists, random *)

\* dict.get(key, default)
Get(d, key, default) == IF key \in DOMAIN d THEN d[key] ELSE default

\* the empty dict {}
EmptyDict == [k \in {} |-> 0]

\* x in list
InList(x, list) == \E i \in DOMAIN list : list[i] = x

Samples(a, b, n) == { a + ((b - a) * i) \div n : i \in 0..n }

\* random.randint(a, b): a value of a..b (sampled; both ends always included)
randint(a, b) ==
    IF b - a >= 99 THEN Samples(a, b, RollSamples) ELSE Samples(a, b, DamageSamples)

\* random.choice(list)
choice(list) == { list[i] : i \in DOMAIN list }

---------------------------------------------------------------------------
(* How a call ends: `return (success, description, effects)` or an exception. *)
(* rule names the block of the resolver that holds the return statement,      *)
(* draws lists the random values the call consumed.                           *)

Ret(success, description, effects, rule, dr) ==
    [ raised |-> "none", succeeded |-> success, narration |-> description,
      effects |-> effects, rule |-> rule, draws |-> dr ]

Raise(exception, rule, dr) ==
    [ raised |-> exception, succeeded |-> FALSE, narration |-> "",
      effects |-> EmptyDict, rule |-> rule, draws |-> dr ]

\* the outcomes of a block entered after the values pre were already drawn
After(pre, outcomes) == { [o EXCEPT !.draws = pre \o @] : o \in outcomes }

---------------------------------------------------------------------------
(* DungeonMaster._evaluate_combat, block by block *)

CombatEffects == [ damage_taken |-> 0, damage_dealt |-> 0, status |-> <<>> ]

AccuracyMod(s) ==
    (IF s.status_effects.hasted > 0 THEN 15 ELSE 0)
  - (IF s.status_effects.slowed > 0 THEN 15 ELSE 0)

\* DodgeChance without the penalty for wetness > 60
DodgeChanceIgnoresWetness(s) ==
    s.agility * 10 + (IF Truthy(s.equipped.light) THEN 50 ELSE 0) + AccuracyMod(s)
  - (IF ~s.left_leg \/ ~s.right_leg THEN 20 ELSE 0)

DodgeChance(s) ==
    s.agility * 10 + (IF Truthy(s.equipped.light) THEN 50 ELSE 0) + AccuracyMod(s)
  - (IF ~s.left_leg \/ ~s.right_leg THEN 20 ELSE 0)
  - (IF s.wetness > 60 THEN 30 ELSE 0)

CombatDodge(s) ==
    UNION { IF r < DodgeChance(s)
            THEN { Ret(TRUE, "You successfully dodge the attack!", CombatEffects,
                       "dodge", <<r>>) }
            ELSE { LET taken == IF Truthy(s.equipped.armor) THEN max(5, d - 10) ELSE d
                   IN  Ret(FALSE,
                           "You fail to dodge and take " \o ToString(taken) \o " damage!",
                           [CombatEffects EXCEPT !.damage_taken = taken],
                           "dodge", <<r, d>>)
                   : d \in randint(10, 25) }
          : r \in randint(1, 100) }

BlockChance(s) == 60 + s.strength * 5 + AccuracyMod(s)

CombatBlock(s) ==
    IF ~Truthy(s.equipped.weapon) /\ ~Truthy(s.equipped.offhand)
    THEN { Ret(FALSE,
               "You have nothing to block with! Take " \o ToString(d) \o " damage!",
               [CombatEffects EXCEPT !.damage_taken = d], "block", <<d>>)
           : d \in randint(15, 30) }
    ELSE UNION {
           IF r < BlockChance(s)
           THEN { Ret(TRUE,
                      "You block the attack! Only take " \o ToString(d) \o " damage!",
                      [CombatEffects EXCEPT !.damage_taken = d], "block", <<r, d>>)
                  : d \in randint(2, 8) }
           ELSE { Ret(FALSE,
                      "Your block fails! Take " \o ToString(d) \o " damage!",
                      [CombatEffects EXCEPT !.damage_taken = d], "block", <<r, d>>)
                  : d \in randint(12, 20) }
           : r \in randint(1, 100) }

EyeHitChance(s) == 30 + s.agility * 3

\* EyeWeakness decided by the weakness tags alone
EyeWeaknessByTag(enemy_type, weak_points) == InList("eye", weak_points)

\* the test that selects the guaranteed branch of the eye strike
EyeWeakness(enemy_type, weak_points) ==
    InList("eye", weak_points) \/ enemy_type = "rat" \/ enemy_type = "ghoul"

CombatEye(s, enemy_type, weak_points) ==
    IF EyeWeakness(enemy_type, weak_points)
    THEN UNION {
           LET damage == d + s.strength + (IF Truthy(s.equipped.weapon) THEN 15 ELSE 0)
               hit == "You strike the creature's eye! Critical hit for "
                          \o ToString(damage) \o " damage!"
           IN  { IF b > 70
                 THEN Ret(TRUE, hit \o " It's blinded!",
                          [CombatEffects EXCEPT !.damage_dealt = damage,
                                                !.status = <<"enemy_blinded">>],
                          "eye", <<d, b>>)
                 ELSE Ret(TRUE, hit,
                          [CombatEffects EXCEPT !.damage_dealt = damage],
                          "eye", <<d, b>>)
                 : b \in randint(1, 100) }
           : d \in randint(20, 40) }
    ELSE UNION {
           IF r < EyeHitChance(s)
           THEN { LET damage == d + s.strength
                  IN  Ret(TRUE,
                          "You hit for " \o ToString(damage)
                              \o " damage, but eyes aren't its weak point.",
                          [CombatEffects EXCEPT !.damage_dealt = damage],
                          "eye", <<r, d>>)
                  : d \in randint(10, 20) }
           ELSE { Ret(FALSE,
                      "The creature has no vulnerable eyes. It counters, dealing "
                          \o ToString(d) \o " damage!",
                      [CombatEffects EXCEPT !.damage_taken = d], "eye", <<r, d>>)
                  : d \in randint(5, 15) }
           : r \in randint(1, 100) }

HeadHitChance(s) ==
    40 + s.agility * 5 + AccuracyMod(s) + (IF Truthy(s.equipped.light) THEN 20 ELSE 0)

CombatHead(s) ==
    UNION {
      IF r < HeadHitChance(s)
      THEN UNION {
             LET damage == d + s.strength + (IF Truthy(s.equipped.weapon) THEN 10 ELSE 0)
                 hit == "You bash the creature's head for " \o ToString(damage)
                            \o " damage!"
             IN  { IF b > 85
                   THEN Ret(TRUE, hit \o " It's stunned!",
                            [CombatEffects EXCEPT !.damage_dealt = damage,
                                                  !.status = <<"enemy_stunned">>],
                            "head", <<r, d, b>>)
                   ELSE Ret(TRUE, hit,
                            [CombatEffects EXCEPT !.damage_dealt = damage],
                            "head", <<r, d, b>>)
                   : b \in randint(1, 100) }
             : d \in randint(15, 30) }
      ELSE { Ret(FALSE,
                 "You miss the head! The creature retaliates for " \o ToString(d)
                     \o " damage!",
                 [CombatEffects EXCEPT !.damage_taken = d], "head", <<r, d>>)
             : d \in randint(10, 20) }
      : r \in randint(1, 100) }

CombatLeg(s, weak_points) ==
    IF InList("legs", weak_points)
    THEN { LET damage == d + s.strength + (IF Truthy(s.equipped.weapon) THEN 8 ELSE 0)
           IN  Ret(TRUE,
                   "You cripple its leg! " \o ToString(damage)
                       \o " damage and it's slowed!",
                   [CombatEffects EXCEPT !.damage_dealt = damage,
                                         !.status = <<"enemy_slowed">>],
                   "leg", <<d>>)
           : d \in randint(15, 25) }
    ELSE { LET damage == d + s.strength + (IF Truthy(s.equipped.weapon) THEN 5 ELSE 0)
           IN  Ret(TRUE, "You hit its leg for " \o ToString(damage) \o " damage.",
                   [CombatEffects EXCEPT !.damage_dealt = damage], "leg", <<d>>)
           : d \in randint(5, 15) }

ThroatHitChance(s) == 35 + s.agility * 4 + AccuracyMod(s)

CombatThroat(s) ==
    UNION {
      IF r < ThroatHitChance(s)
      THEN { LET damage == d + s.strength + (IF Truthy(s.equipped.weapon) THEN 20 ELSE 0)
             IN  Ret(TRUE,
                     "CRITICAL! You slash its throat for " \o ToString(damage)
                         \o " damage! It's bleeding out!",
                     [CombatEffects EXCEPT !.damage_dealt = damage,
                                           !.status = <<"enemy_bleeding">>],
                     "throat", <<r, d>>)
             : d \in randint(25, 45) }
      ELSE { Ret(FALSE,
                 "You miss the critical strike! It savages you for " \o ToString(d)
                     \o " damage!",
                 [CombatEffects EXCEPT !.damage_taken = d], "throat", <<r, d>>)
             : d \in randint(15, 25) }
      : r \in randint(1, 100) }

HasTorch(s) == Truthy(s.equipped.light) /\ In("torch", lower(s.equipped.light))

CombatFire(s, enemy_type, weak_points) ==
    IF HasTorch(s)
    THEN IF InList("fire", weak_points) \/ enemy_type = "ghoul"
         THEN { Ret(TRUE,
                    "You set it ablaze! " \o ToString(d) \o " damage! It's burning!",
                    [CombatEffects EXCEPT !.damage_dealt = d,
                                          !.status = <<"enemy_burning">>],
                    "fire", <<d>>)
                : d \in randint(30, 50) }
         ELSE { Ret(TRUE,
                    "You burn it for " \o ToString(d)
                        \o " damage, but it's not very effective.",
                    [CombatEffects EXCEPT !.damage_dealt = d], "fire", <<d>>)
                : d \in randint(10, 20) }
    ELSE { Ret(FALSE, "You have no fire source!", CombatEffects, "fire", <<>>) }

TrickChance(s) == 40 + s.mind * 8

CombatFeint(s) ==
    UNION {
      IF r < TrickChance(s)
      THEN { Ret(TRUE,
                 "You successfully feint! The enemy is open for a follow-up attack!",
                 [CombatEffects EXCEPT !.status = <<"enemy_open">>], "feint", <<r>>) }
      ELSE { Ret(FALSE,
                 "Your feint fails! You're exposed! Take " \o ToString(d) \o " damage!",
                 [CombatEffects EXCEPT !.damage_taken = d], "feint", <<r, d>>)
             : d \in randint(8, 16) }
      : r \in randint(1, 100) }

\* GrappleMinStrength with the threshold off by one
GrappleMinStrengthOffByOne(s) == s.strength >= 3

GrappleMinStrength(s) == s.strength >= 4

GrappleChance(s, enemy_type) ==
    50 + s.strength * 10 - (IF enemy_type \in {"ghoul", "harvester"} THEN 20 ELSE 0)

CombatGrapple(s, enemy_type) ==
    IF ~GrappleMinStrength(s)
    THEN { Ret(FALSE, "You're not strong enough to grapple effectively!",
               CombatEffects, "grapple", <<>>) }
    ELSE UNION {
           IF r < GrappleChance(s, enemy_type)
           THEN { Ret(TRUE, "You successfully grapple the creature! It's restrained!",
                      [CombatEffects EXCEPT !.status = <<"enemy_grappled">>],
                      "grapple", <<r>>) }
           ELSE { Ret(FALSE,
                      "The grapple fails! It breaks free and strikes you for "
                          \o ToString(d) \o " damage!",
                      [CombatEffects EXCEPT !.damage_taken = d], "grapple", <<r, d>>)
                  : d \in randint(12, 22) }
           : r \in randint(1, 100) }

CritChance(s) == 5 + s.agility + s.combat_bonus.critical_chance

CounterChance(s) ==
    50 - s.agility * 3 - AccuracyMod(s) - (IF Truthy(s.equipped.armor) THEN 15 ELSE 0)

\* GenericDamage without the floor of 1
GenericDamageNoFloor(s, d) ==
    d + s.strength + (IF Truthy(s.equipped.weapon) THEN 10 ELSE 0)
      + (IF Truthy(s.equipped.light) THEN 10 ELSE -20)
      + s.combat_bonus.damage

GenericDamage(s, d) ==
    max(1, d + s.strength + (IF Truthy(s.equipped.weapon) THEN 10 ELSE 0)
             + (IF Truthy(s.equipped.light) THEN 10 ELSE -20)
             + s.combat_bonus.damage)

\* the part of the generic attack after a non-critical hit: the counter attack
CombatCounter(s, damage, pre) ==
    UNION {
      IF r < CounterChance(s)
      THEN { LET counter_damage == IF Truthy(s.equipped.armor) THEN max(3, cd - 8) ELSE cd
             IN  Ret(TRUE,
                     "You deal " \o ToString(damage) \o " damage but take "
                         \o ToString(counter_damage) \o " in return!",
                     [CombatEffects EXCEPT !.damage_dealt = damage,
                                           !.damage_taken = counter_damage],
                     "generic", pre \o <<r, cd>>)
             : cd \in randint(8, 18) }
      ELSE { Ret(TRUE, "You strike for " \o ToString(damage) \o " damage!",
                 [CombatEffects EXCEPT !.damage_dealt = damage],
                 "generic", pre \o <<r>>) }
      : r \in randint(1, 100) }

\* CombatGeneric without the return in the critical-hit branch: the counter
\* attack is rolled after a critical hit too
CombatGenericCritFallsThrough(s) ==
    UNION {
      UNION {
        LET crit == c <= CritChance(s)
            damage == IF crit THEN GenericDamage(s, d) * 2 ELSE GenericDamage(s, d)
            tags == IF crit THEN <<"critical_hit">> ELSE <<>>
        IN  UNION {
              IF r < CounterChance(s)
              THEN { LET counter_damage ==
                             IF Truthy(s.equipped.armor) THEN max(3, cd - 8) ELSE cd
                     IN  Ret(TRUE,
                             "You deal " \o ToString(damage) \o " damage but take "
                                 \o ToString(counter_damage) \o " in return!",
                             [CombatEffects EXCEPT !.damage_dealt = damage,
                                                   !.damage_taken = counter_damage,
                                                   !.status = tags],
                             "generic", <<c, d, r, cd>>)
                     : cd \in randint(8, 18) }
              ELSE { Ret(TRUE, "You strike for " \o ToString(damage) \o " damage!",
                         [CombatEffects EXCEPT !.damage_dealt = damage,
                                               !.status = tags],
                         "generic", <<c, d, r>>) }
              : r \in randint(1, 100) }
        : d \in randint(5, 15) }
      : c \in randint(1, 100) }

CombatGeneric(s) ==
    UNION {
      UNION {
        LET damage == GenericDamage(s, d)
        IN  IF c <= CritChance(s)
            THEN { Ret(TRUE, "CRITICAL HIT! You deal " \o ToString(damage * 2) \o " damage!",
                       [CombatEffects EXCEPT !.damage_dealt = damage * 2,
                                             !.status = <<"critical_hit">>],
                       "generic", <<c, d>>) }
            ELSE CombatCounter(s, damage, <<c, d>>)
        : d \in randint(5, 15) }
      : c \in randint(1, 100) }

\* CombatRules with the grapple test moved ahead of the leg test
CombatRulesGrappleBeforeLeg(s, action, enemy_type, weak_points) ==
    IF In("dodge", action) \/ In("evade", action) \/ In("roll", action)
    THEN CombatDodge(s)
    ELSE IF In("block", action) \/ In("parry", action) \/ In("defend", action)
    THEN CombatBlock(s)
    ELSE IF AnyIn({"eye", "eyes"}, action)
    THEN CombatEye(s, enemy_type, weak_points)
    ELSE IF AnyIn({"head", "skull", "brain"}, action)
    THEN CombatHead(s)
    ELSE IF In("grapple", action) \/ In("wrestle", action) \/ In("grab", action)
    THEN CombatGrapple(s, enemy_type)
    ELSE IF AnyIn({"leg", "legs", "knee"}, action)
    THEN CombatLeg(s, weak_points)
    ELSE IF AnyIn({"throat", "neck"}, action)
    THEN CombatThroat(s)
    ELSE IF In("fire", action) \/ In("burn", action) \/ In("torch", action)
    THEN CombatFire(s, enemy_type, weak_points)
    ELSE IF In("feint", action) \/ In("fake", action) \/ In("trick", action)
    THEN CombatFeint(s)
    ELSE CombatGeneric(s)

\* the ordered keyword tests of _evaluate_combat, after the stunned check
CombatRules(s, action, enemy_type, weak_points) ==
    IF In("dodge", action) \/ In("evade", action) \/ In("roll", action)
    THEN CombatDodge(s)
    ELSE IF In("block", action) \/ In("parry", action) \/ In("defend", action)
    THEN CombatBlock(s)
    ELSE IF AnyIn({"eye", "eyes"}, action)
    THEN CombatEye(s, enemy_type, weak_points)
    ELSE IF AnyIn({"head", "skull", "brain"}, action)
    THEN CombatHead(s)
    ELSE IF AnyIn({"leg", "legs", "knee"}, action)
    THEN CombatLeg(s, weak_points)
    ELSE IF AnyIn({"throat", "neck"}, action)
    THEN CombatThroat(s)
    ELSE IF In("fire", action) \/ In("burn", action) \/ In("torch", action)
    THEN CombatFire(s, enemy_type, weak_points)
    ELSE IF In("feint", action) \/ In("fake", action) \/ In("trick", action)
    THEN CombatFeint(s)
    ELSE IF In("grapple", action) \/ In("wrestle", action) \/ In("grab", action)
    THEN CombatGrapple(s, enemy_type)
    ELSE CombatGeneric(s)

\* Stunned with the comparison off by one
StunnedOffByOne(s) == s.status_effects.stunned > 1

Stunned(s) == s.status_effects.stunned > 0

_evaluate_combat(s, action, context) ==
    LET enemy == Get(context, "enemy", EmptyDict)
        enemy_type == Get(enemy, "type", "unknown")
        weak_points == Get(enemy, "weaknesses", <<>>)
    IN  IF Stunned(s)
        THEN { Ret(FALSE, "You're stunned and cannot act effectively this turn!",
                   CombatEffects, "stunned", <<>>) }
        ELSE CombatRules(s, action, enemy_type, weak_points)

---------------------------------------------------------------------------
(* DungeonMaster._evaluate_exploration, block by block *)

StealthChance(s) ==
    40 + s.agility * 8
  - (IF s.wetness > 50 THEN 20 ELSE 0)
  - (IF Truthy(s.equipped.armor) THEN 15 ELSE 0)
  + (IF ~Truthy(s.equipped.light) THEN 10 ELSE -10)

ExploreStealth(s) ==
    { IF r < StealthChance(s)
      THEN Ret(TRUE, "You move silently through the shadows, undetected.",
               EmptyDict, "sneak", <<r>>)
      ELSE Ret(FALSE, "You make noise! Something has noticed you!",
               "detected" :> TRUE, "sneak", <<r>>)
      : r \in randint(1, 100) }

FindChance(s) ==
    (IF Truthy(s.equipped.light) THEN FIND_CHANCE_WITH_LIGHT
                                 ELSE FIND_CHANCE_WITHOUT_LIGHT)
  + s.mind * 3

FindableItems ==
    <<"healing herbs", "rusty dagger", "torch", "dried food", "rope", "lockpick">>

\* the inner `if "search" in action:` block, entered after the values pre
ExploreFind(s, pre) ==
    UNION {
      IF r < FindChance(s)
      THEN { Ret(TRUE, "You find " \o item \o "!",
                 ("found_item" :> TRUE) @@ ("item_name" :> item),
                 "search", pre \o <<r, item>>)
             : item \in choice(FindableItems) }
      ELSE { Ret(FALSE, "You search but find nothing of value.", EmptyDict,
                 "search", pre \o <<r>>) }
      : r \in randint(1, 100) }

\* Python raises KeyError on d[key] for a key the dict does not hold
HasKey(d, key) == key \in DOMAIN d

ClimbChance(s) ==
    s.agility * 8 + s.strength * 5
  - (IF s.wetness > 60 THEN 20 ELSE 0)
  - (IF s.stamina < 30 THEN 15 ELSE 0)
  + (IF Truthy(s.equipped["rope"]) THEN 10 ELSE 0)

\* ExploreClimb refusing the climb only when both arms are lost
ExploreClimbBothArmsLost(s) ==
    IF ~s.left_arm /\ ~s.right_arm
    THEN { Ret(FALSE, "You can't climb with your injured arms!", EmptyDict,
               "climb", <<>>) }
    ELSE IF ~HasKey(s.equipped, "rope")
    THEN { Raise("KeyError", "climb", <<>>) }
    ELSE UNION {
           IF r < ClimbChance(s)
           THEN { Ret(TRUE, "You successfully make the climb!",
                      "stamina_cost" :> 15, "climb", <<r>>) }
           ELSE { Ret(FALSE, "You fall! Taking " \o ToString(d) \o " damage!",
                      ("damage_taken" :> d) @@ ("stamina_cost" :> 10),
                      "climb", <<r, d>>)
                  : d \in randint(10, 30) }
           : r \in randint(1, 100) }

ExploreClimb(s) ==
    IF ~s.left_arm \/ ~s.right_arm
    THEN { Ret(FALSE, "You can't climb with your injured arms!", EmptyDict,
               "climb", <<>>) }
    ELSE IF ~HasKey(s.equipped, "rope")
    THEN { Raise("KeyError", "climb", <<>>) }
    ELSE LET difficulty == IF ~s.left_leg \/ ~s.right_leg
                           THEN "difficulty" :> "very hard" ELSE EmptyDict
         IN  UNION {
               IF r < ClimbChance(s)
               THEN { Ret(TRUE, "You successfully make the climb!",
                          difficulty @@ ("stamina_cost" :> 15), "climb", <<r>>) }
               ELSE { Ret(FALSE, "You fall! Taking " \o ToString(d) \o " damage!",
                          difficulty @@ ("damage_taken" :> d) @@ ("stamina_cost" :> 10),
                          "climb", <<r, d>>)
                      : d \in randint(10, 30) }
               : r \in randint(1, 100) }

SwimChance(s) ==
    60 + s.stamina \div 10
  - (IF Truthy(s.equipped.armor) THEN 20 ELSE 0)
  - (IF ~s.left_arm \/ ~s.right_arm THEN 30 ELSE 0)

ExploreSwim(s) ==
    UNION {
      IF r < SwimChance(s)
      THEN { Ret(TRUE, "You swim successfully through the water.",
                 ("stamina_cost" :> 20) @@ ("wetness_increase" :> 20), "swim", <<r>>) }
      ELSE { Ret(FALSE,
                 "You struggle in the water! Taking " \o ToString(d)
                     \o " damage from exhaustion!",
                 ("damage_taken" :> d) @@ ("stamina_cost" :> 25)
                     @@ ("wetness_increase" :> 30),
                 "swim", <<r, d>>)
             : d \in randint(5, 15) }
      : r \in randint(1, 100) }

PersuasionChance(s) == 30 + s.mind * 7 + (IF s.sanity > 70 THEN 15 ELSE -15)

ExplorePersuade(s) ==
    { IF r < PersuasionChance(s)
      THEN Ret(TRUE, "Your words seem to have an effect...", EmptyDict,
               "persuade", <<r>>)
      ELSE Ret(FALSE, "Your attempt to persuade fails to convince them.", EmptyDict,
               "persuade", <<r>>)
      : r \in randint(1, 100) }

IntelligenceChance(s) ==
    30 + s.mind * 10
  + (IF Truthy(s.equipped.light) THEN 20 ELSE -30)
  - (IF s.sanity < 50 THEN 20 ELSE 0)

ExploreSolve(s) ==
    { IF r < IntelligenceChance(s)
      THEN Ret(TRUE, "You figure it out! The solution becomes clear.",
               "puzzle_solved" :> TRUE, "solve", <<r>>)
      ELSE Ret(FALSE, "The puzzle eludes you. You can't make sense of it.", EmptyDict,
               "solve", <<r>>)
      : r \in randint(1, 100) }

TrapChance(s) ==
    35 + s.agility * 6 + s.mind * 4
  + (IF In("lockpick", str(s.inventory)) THEN 25 ELSE 0)

ExploreTrap(s) ==
    UNION {
      IF r < TrapChance(s)
      THEN { Ret(TRUE, "You successfully identify and disarm the trap!", EmptyDict,
                 "trap", <<r>>) }
      ELSE { Ret(FALSE, "You trigger the trap! Taking " \o ToString(d) \o " damage!",
                 "damage_taken" :> d, "trap", <<r, d>>)
             : d \in randint(15, 35) }
      : r \in randint(1, 100) }

ExploreHeal(s) ==
    IF In("healing herbs", str(s.inventory)) \/ In("medical supplies", str(s.inventory))
    THEN { Ret(TRUE, "You treat your wounds, restoring " \o ToString(h) \o " health!",
               ("health_restored" :> h) @@ ("remove_item" :> "healing herbs"),
               "heal", <<h>>)
           : h \in randint(15, 30) }
    ELSE { Ret(TRUE,
               "You do your best with no supplies, restoring " \o ToString(h)
                   \o " health.",
               "health_restored" :> h, "heal", <<h>>)
           : h \in randint(3, 8) }

BreakChance(s) ==
    50 + s.strength * 10 + (IF Truthy(s.equipped.weapon) THEN 20 ELSE 0)

ExploreBreak(s) ==
    UNION {
      IF r < BreakChance(s)
      THEN { Ret(TRUE, "You smash it apart!", "object_broken" :> TRUE, "break", <<r>>) }
      ELSE { Ret(FALSE,
                 "It doesn't break! You hurt yourself for " \o ToString(d) \o " damage!",
                 "damage_taken" :> d, "break", <<r, d>>)
             : d \in randint(3, 10) }
      : r \in randint(1, 100) }

\* PerceptionChance with the sign of the mind term slipped
PerceptionChanceSignSlip(s) == 40 - s.mind * 8 - (IF s.sanity < 40 THEN 30 ELSE 0)

PerceptionChance(s) == 40 + s.mind * 8 - (IF s.sanity < 40 THEN 30 ELSE 0)

ExploreListen(s) ==
    { IF r < PerceptionChance(s)
      THEN Ret(TRUE, "You listen carefully and hear valuable information.",
               "information" :> "You hear something important...", "listen", <<r>>)
      ELSE Ret(FALSE, "You hear only the ambient sounds of the dungeon.", EmptyDict,
               "listen", <<r>>)
      : r \in randint(1, 100) }

HideChance(s) ==
    45 + s.agility * 7
  - (IF Truthy(s.equipped.light) THEN 25 ELSE 0)
  - (IF Truthy(s.equipped.armor) THEN 15 ELSE 0)

ExploreHide(s) ==
    { IF r < HideChance(s)
      THEN Ret(TRUE, "You find a hiding spot and conceal yourself.",
               "hidden" :> TRUE, "hide", <<r>>)
      ELSE Ret(FALSE, "There's nowhere to hide! You remain exposed!", EmptyDict,
               "hide", <<r>>)
      : r \in randint(1, 100) }

\* ExploreDefault for a resolver that rejects a text it cannot classify
ExploreDefaultRejects ==
    { Ret(FALSE, "You can't do that.", EmptyDict, "default", <<>>) }

ExploreDefault == { Ret(TRUE, "You attempt your action...", EmptyDict, "default", <<>>) }

\* the keyword tests that follow the search/look/examine block
ExploreRulesAfterSearch(s, action) ==
    IF In("climb", action) \/ In("jump", action) \/ In("leap", action)
    THEN ExploreClimb(s)
    ELSE IF In("swim", action) \/ In("dive", action) \/ In("underwater", action)
    THEN ExploreSwim(s)
    ELSE IF In("persuade", action) \/ In("convince", action) \/ In("talk", action)
            \/ In("negotiate", action)
    THEN ExplorePersuade(s)
    ELSE IF In("solve", action) \/ In("decipher", action) \/ In("puzzle", action)
            \/ In("read", action)
    THEN ExploreSolve(s)
    ELSE IF In("trap", action) \/ In("disarm", action) \/ In("disable", action)
    THEN ExploreTrap(s)
    ELSE IF In("heal", action) \/ In("bandage", action) \/ In("medicine", action)
    THEN ExploreHeal(s)
    ELSE IF In("break", action) \/ In("smash", action) \/ In("destroy", action)
    THEN ExploreBreak(s)
    ELSE IF In("listen", action) \/ In("hear", action)
    THEN ExploreListen(s)
    ELSE IF In("hide", action) \/ In("conceal", action)
    THEN ExploreHide(s)
    ELSE ExploreDefault

\* the search/look/examine block: it returns when it is too dark and when the
\* text holds "search"; otherwise control leaves the block and the tests go on
ExploreSearch(s, action) ==
    LET darkness == IF ~Truthy(s.equipped.light)
                    THEN { <<r>> : r \in randint(1, 100) } ELSE { <<>> }
    IN  UNION {
          IF pre # <<>> /\ pre[1] > DARKNESS_FAILURE_THRESHOLD
          THEN { Ret(FALSE,
                     "It's too dark to see anything clearly. You fumble around blindly.",
                     EmptyDict, "search", pre) }
          ELSE IF In("search", action)
          THEN ExploreFind(s, pre)
          ELSE After(pre, ExploreRulesAfterSearch(s, action))
          : pre \in darkness }

_evaluate_exploration(s, action, context) ==
    IF In("sneak", action) \/ In("stealth", action) \/ In("quiet", action)
    THEN ExploreStealth(s)
    ELSE IF In("search", action) \/ In("look", action) \/ In("examine", action)
    THEN ExploreSearch(s, action)
    ELSE ExploreRulesAfterSearch(s, action)

---------------------------------------------------------------------------
(* DungeonMaster._evaluate_combat_ai and DungeonMaster.evaluate_action *)

\* The reply of the remote call: the call raises (kind "error"), or it returns a
\* text; has_json tells whether a JSON object could be parsed out of the text,
\* and json is that object.
ReplyFails(reply) ==
    \/ reply.kind = "error"
    \/ ~reply.has_json
    \/ ~HasKey(reply.json, "success")
    \/ ~HasKey(reply.json, "description")

\* _evaluate_combat_ai with a handler that catches the failures of the call and
\* of the parse only: a reply without 'success' or 'description' raises KeyError
_evaluate_combat_ai_KeyError(s, action, context, reply) ==
    IF reply.kind = "error" \/ ~reply.has_json
    THEN _evaluate_combat(s, lower(action), context)
    ELSE IF ~HasKey(reply.json, "success") \/ ~HasKey(reply.json, "description")
    THEN { Raise("KeyError", "ai", <<>>) }
    ELSE { Ret(reply.json["success"], reply.json["description"],
               [ damage_taken |-> Get(reply.json, "damage_taken", 0),
                 damage_dealt |-> Get(reply.json, "damage_dealt", 0),
                 instant_death |-> Get(reply.json, "instant_death", FALSE),
                 status |-> <<>> ],
               "ai", <<>>) }

_evaluate_combat_ai(s, action, context, reply) ==
    IF ReplyFails(reply)
    THEN _evaluate_combat(s, lower(action), context)
    ELSE { Ret(reply.json["success"], reply.json["description"],
               [ damage_taken |-> Get(reply.json, "damage_taken", 0),
                 damage_dealt |-> Get(reply.json, "damage_dealt", 0),
                 instant_death |-> Get(reply.json, "instant_death", FALSE),
                 status |-> <<>> ],
               "ai", <<>>) }

evaluate_action(s, ai, action, context, reply) ==
    IF Get(context, "in_combat", FALSE)
    THEN IF ai
         THEN _evaluate_combat_ai(s, action, context, reply)
         ELSE _evaluate_combat(s, lower(action), context)
    ELSE _evaluate_exploration(s, lower(action), context)

\* StateAfterEvaluate for a resolver that applies the damage it reports
StateAfterEvaluateApplied(s, outcome) ==
    [s EXCEPT !.health = @ - Get(outcome.effects, "damage_taken", 0)]

\* evaluate_action and the resolvers only read self.state
StateAfterEvaluate(s, outcome) == s

---------------------------------------------------------------------------
(* The inputs the model draws: actor states, action texts, contexts, replies *)

AbilityScores == {1, 3, 4, 5, MaxAbility}

\* the actor states that differ from s in at most one field the resolver reads,
\* and the one with the highest agility that carries a light
Vary(s) ==
    {s}
    \cup { [s EXCEPT !.strength = v] : v \in AbilityScores }
    \cup { [s EXCEPT !.agility = v] : v \in AbilityScores }
    \cup { [s EXCEPT !.mind = v] : v \in AbilityScores }
    \cup { [s EXCEPT !.stamina = v] : v \in {20, 100} }
    \cup { [s EXCEPT !.wetness = v] : v \in {0, 55} }
    \cup { [s EXCEPT !.sanity = v] : v \in {30, 45, 80} }
    \cup { [s EXCEPT !.status_effects[e] = 1] : e \in {"stunned", "hasted", "slowed"} }
    \cup { [s EXCEPT !.left_arm = FALSE], [s EXCEPT !.right_arm = FALSE],
           [s EXCEPT !.left_leg = FALSE], [s EXCEPT !.right_leg = FALSE] }
    \cup { [s EXCEPT !.equipped.weapon = "rusty dagger"],
           [s EXCEPT !.equipped.light = "Torch"],
           [s EXCEPT !.equipped.light = "lantern"],
           [s EXCEPT !.equipped.armor = "leather armor"],
           [s EXCEPT !.equipped.offhand = "shield"] }
    \cup { [s EXCEPT !.inventory = <<i>>]
           : i \in {"lockpick", "healing herbs", "medical supplies"} }
    \cup { [s EXCEPT !.inventory = <<"rope", "lockpick">>] }
    \cup { [s EXCEPT !.combat_bonus.critical_chance = 10],
           [s EXCEPT !.combat_bonus.damage = 5] }
    \cup { [s EXCEPT !.agility = MaxAbility, !.equipped.light = "lantern"] }

\* an armed actor who has dried off
Armed ==
    [GameState EXCEPT !.wetness = 40, !.stamina = 100, !.sanity = 80,
                      !.equipped.weapon = "rusty dagger",
                      !.equipped.armor = "leather armor",
                      !.equipped.offhand = "shield",
                      !.inventory = <<"healing herbs", "dried food">>]

\* a weakened actor who lost an arm and a leg
Maimed ==
    [GameState EXCEPT !.health = 15, !.stamina = 20, !.sanity = 30, !.strength = 3,
                      !.left_arm = FALSE, !.left_leg = FALSE,
                      !.status_effects.slowed = 2, !.status_effects.bleeding = 3,
                      !.equipped.light = "Torch"]

Profiles == { GameState, Armed, Maimed }

\* the actor states of the model: each profile and its one-field variations
ActorStates == UNION { Vary(p) : p \in Profiles }

Texts ==
    { "", "attack", "Dodge left", "ROLL away", "punch the troll",
      "block and defend my head", "disarm and parry", "read its eye",
      "attack the EYES", "smash its skull", "grab its leg", "dive for its knee",
      "slash the throat", "fire at its neck", "burn it with my torch",
      "trick it with talk", "fake a grab", "grapple it",
      "sneak and stab", "search quietly", "Search the room", "look around",
      "look and climb", "examine the trap", "climb the wall",
      "check my health", "conceal myself", "hide and hear" }

Ghoul == [ type |-> "ghoul", health |-> 40, weaknesses |-> <<"fire", "eyes">> ]

Enemies ==
    { Ghoul,
      [ type |-> "rat", health |-> 10, weaknesses |-> <<>> ],
      [ type |-> "harvester", health |-> 80, weaknesses |-> <<"eyes", "legs">> ],
      [ type |-> "bat", weaknesses |-> <<"eye", "fire">> ] }

Contexts ==
    { [ location |-> "flooded_cell", in_combat |-> FALSE ],
      [ location |-> "flooded_cell", in_combat |-> TRUE ] }
    \cup { [ location |-> "flooded_cell", in_combat |-> TRUE, enemy |-> e ]
           : e \in Enemies }

AIJsonObjects ==
    { [ success |-> TRUE, description |-> "Your blade finds its heart.",
        damage_taken |-> 0, damage_dealt |-> 35, instant_death |-> FALSE,
        reasoning |-> "targets a weakness" ],
      [ success |-> FALSE, description |-> "It tears you apart.",
        damage_taken |-> 100, damage_dealt |-> 0, instant_death |-> TRUE,
        reasoning |-> "bare hands" ],
      [ success |-> TRUE, description |-> "You trade blows.",
        damage_taken |-> 20, damage_dealt |-> 25 ],
      [ success |-> FALSE, description |-> "Nothing happens." ],
      [ description |-> "You strike.", damage_taken |-> 5, damage_dealt |-> 10 ],
      [ success |-> TRUE, damage_dealt |-> 10 ],
      [ success |-> FALSE, description |-> "You wound it, then it pins you.",
        damage_taken |-> 10, damage_dealt |-> 40 ] }

NoReply == [ kind |-> "unused", has_json |-> FALSE, json |-> EmptyDict ]

AIReplies ==
    { [ kind |-> "error", has_json |-> FALSE, json |-> EmptyDict ],
      [ kind |-> "text", has_json |-> FALSE, json |-> EmptyDict ] }
    \cup { [ kind |-> "text", has_json |-> TRUE, json |-> j ] : j \in AIJsonObjects }

\* the remote call is made only on the AI path of a combat action
RepliesFor(ai, context) ==
    IF ai /\ Get(context, "in_combat", FALSE) THEN AIReplies ELSE { NoReply }

NoResult == [ succeeded |-> FALSE, narration |-> "", effects |-> EmptyDict, rule |-> "" ]

---------------------------------------------------------------------------
(* The state machine *)

Init ==
    /\ game = None
    /\ state \in ActorStates
    /\ ai_enabled \in (IF state \in Profiles THEN BOOLEAN ELSE {FALSE})
    /\ pc = "idle"
    /\ call = [ action |-> "", context |-> EmptyDict, reply |-> NoReply ]
    /\ draws = <<>>
    /\ result = NoResult
    /\ current_node = None
    /\ saves = EmptyDict
    /\ USE_AI_COMBAT = ai_enabled
    /\ combat_rounds = 0

\* one call of DungeonMaster.evaluate_action(action, context)
EvaluateAction ==
    /\ pc = "idle"
    /\ \E action \in Texts, context \in Contexts :
         \E reply \in RepliesFor(ai_enabled, context) :
           \E o \in evaluate_action(state, ai_enabled, action, context, reply) :
             /\ call' = [ action |-> action, context |-> context, reply |-> reply ]
             /\ draws' = o.draws
             /\ result' = [ succeeded |-> o.succeeded, narration |-> o.narration,
                            effects |-> o.effects, rule |-> o.rule ]
             /\ pc' = IF o.raised = "none" THEN "returned" ELSE o.raised
             /\ state' = StateAfterEvaluate(state, o)
    /\ UNCHANGED <<game, ai_enabled, current_node, saves, USE_AI_COMBAT, combat_rounds>>

Next == EvaluateAction

Spec == Init /\ [][Next]_vars

---------------------------------------------------------------------------
(* ZagreusGame: constants and the part of the story tree the model plays *)

\* the main loop of the model stops after MaxTurns calls of process_node_effects
MaxTurns == 11

STATUS_DAMAGE_BLEEDING == 3
STATUS_DAMAGE_POISONED == 5
STATUS_DAMAGE_BURNING == 8
STATUS_DAMAGE_INFECTED == 4
STAMINA_DRAIN_POISONED == 5
MAX_HEALTH_LOSS_INFECTED == 1
MAX_INPUT_LENGTH == 500

AUTO_CHECKPOINT_NODES ==
    { "drainage_tunnel", "equip_dagger_continue", "past_ghoul_quick",
      "guardroom_escape", "trophy_room_entrance" }

min(a, b) == IF a <= b THEN a ELSE b

\* StoryNode(node_id, description, choices, combat=None): the 'next' of each
\* choice in list order; a node without combat info has the empty dict here
NoCombat == EmptyDict

StoryNode(choices, combat) ==
    [ kind |-> "StoryNode", choices |-> choices, combat |-> combat ]

\* self.nodes[id] = "CUSTOM_AI" / "COMBAT_AI" / "RESTART": a string, no StoryNode
Marker(text) == [ kind |-> text, choices |-> <<>>, combat |-> NoCombat ]

DeathNode == StoryNode(<<"restart">>, NoCombat)

\* self.nodes, restricted to the way from the cell to the ghoul, the ways
\* around the cell that end in a drainage node, the nodes the handlers route
\* to, and the death nodes
nodes ==
    ("start" :> StoryNode(<<"search_cell_water", "feel_walls", "stand_conserve",
                            "dive_underwater", "scream_help">>, NoCombat))
 @@ ("search_cell_water" :> StoryNode(<<"search_corpse", "take_chain_death",
                            "recoil_panic_death", "chain_weapon_death">>, NoCombat))
 @@ ("search_corpse" :> StoryNode(<<"tinderbox_only", "after_corpse_loot",
                            "greedy_loot_corpse", "eat_moldy_bread">>, NoCombat))
 @@ ("greedy_loot_corpse" :> StoryNode(<<"panicked_exit_search", "hide_from_creature",
                            "desperate_search_consequence">>, NoCombat))
 @@ ("panicked_exit_search" :> StoryNode(<<"drainage_tunnel", "glimpse_creature">>,
                            NoCombat))
 @@ ("drainage_tunnel" :> StoryNode(<<"torch_corridor", "examine_symbols",
                            "stealth_corridor", "call_out_corridor">>, NoCombat))
 @@ ("torch_corridor" :> StoryNode(<<"take_torch", "dark_passage_left",
                            "chewing_sound_right", "investigate_chewing">>, NoCombat))
 @@ ("take_torch" :> StoryNode(<<"blood_trail", "scratch_marks", "tend_wound_torch",
                            "examine_walls_torch">>, NoCombat))
 @@ ("blood_trail" :> StoryNode(<<"fight_ghoul_torch", "scare_ghoul_fire",
                            "run_from_ghoul", "distract_ghoul">>, NoCombat))
 @@ ("fight_ghoul_torch" :> StoryNode(<<"ghoul_eyes_torch", "ghoul_chain_bash",
                            "ghoul_dodge_strike", "ghoul_kick", "combat_ghoul">>,
                            [ enemy |-> Ghoul ]))
 @@ ("combat_ghoul" :> Marker("COMBAT_AI"))
 @@ ("search_victim_body" :> StoryNode(<<"equip_dagger_continue", "use_herbs_wound",
                            "drink_waterskin", "read_note_carefully">>, NoCombat))
 @@ ("after_corpse_loot" :> StoryNode(<<"search_exit_urgent", "light_tinderbox_wet",
                            "climb_corpse">>, NoCombat))
 @@ ("feel_walls" :> StoryNode(<<"climb_wall_holds", "continue_feeling_wall",
                            "search_cell_water">>, NoCombat))
 @@ ("hide_from_creature" :> StoryNode(<<"stealthy_exit_search",
                            "panicked_exit_search">>, NoCombat))
 @@ ("glimpse_creature" :> StoryNode(<<"drainage_tunnel">>, NoCombat))
 @@ ("search_exit_urgent" :> StoryNode(<<"find_drainage_grate">>, NoCombat))
 @@ ("find_drainage_grate" :> StoryNode(<<"smash_lock_chain", "pick_lock_grate",
                            "pull_grate", "dive_last_chance">>, NoCombat))
 @@ ("stand_conserve" :> DeathNode)
 @@ ("death_combat" :> DeathNode)
 @@ ("death_combat_generic" :> DeathNode)
 @@ ("death_wounds" :> DeathNode)
 @@ ("death_infection" :> DeathNode)
 @@ ("death_hypothermia" :> DeathNode)
 @@ ("death_starvation" :> DeathNode)
 @@ ("death_drowning" :> DeathNode)
 @@ ("death_burning" :> DeathNode)
 @@ ("death_time_pressure" :> DeathNode)
 @@ ("restart" :> Marker("RESTART"))

---------------------------------------------------------------------------
(* ZagreusGame.process_node_effects *)

\* StatusEffectsTick without the countdown of line 4819
StatusEffectsTickKeepsCounters(s) ==
    LET on(e) == s.status_effects[e] > 0
    IN  [s EXCEPT
          !.health = @ - (IF on("bleeding") THEN STATUS_DAMAGE_BLEEDING ELSE 0)
                       - (IF on("poisoned") THEN STATUS_DAMAGE_POISONED ELSE 0)
                       - (IF on("burning") THEN STATUS_DAMAGE_BURNING ELSE 0)
                       - (IF on("infected") THEN STATUS_DAMAGE_INFECTED ELSE 0),
          !.stamina = @ - (IF on("poisoned") THEN STAMINA_DRAIN_POISONED ELSE 0),
          !.max_health = @ - (IF on("infected") THEN MAX_HEALTH_LOSS_INFECTED ELSE 0) ]

\* the loop over status_effects: this turn's damage, then the countdown
StatusEffectsTick(s) ==
    LET on(e) == s.status_effects[e] > 0
    IN  [s EXCEPT
          !.health = @ - (IF on("bleeding") THEN STATUS_DAMAGE_BLEEDING ELSE 0)
                       - (IF on("poisoned") THEN STATUS_DAMAGE_POISONED ELSE 0)
                       - (IF on("burning") THEN STATUS_DAMAGE_BURNING ELSE 0)
                       - (IF on("infected") THEN STATUS_DAMAGE_INFECTED ELSE 0),
          !.stamina = @ - (IF on("poisoned") THEN STAMINA_DRAIN_POISONED ELSE 0),
          !.max_health = @ - (IF on("infected") THEN MAX_HEALTH_LOSS_INFECTED ELSE 0),
          !.status_effects =
              [e \in DOMAIN s.status_effects |->
                  IF on(e) THEN s.status_effects[e] - 1 ELSE s.status_effects[e]] ]

\* the durability loop over the slots weapon, armor, light
WearEquipment(s) ==
    LET worn(slot) == /\ slot \in {"weapon", "armor", "light"}
                      /\ Truthy(s.equipped[slot])
                      /\ Get(s.equipment_durability, slot, 0) > 0
        broken(slot) == worn(slot) /\ s.equipment_durability[slot] - 5 <= 0
    IN  [s EXCEPT
          !.equipment_durability =
              [slot \in DOMAIN s.equipment_durability |->
                  IF broken(slot) THEN 0
                  ELSE IF worn(slot) THEN s.equipment_durability[slot] - 5
                  ELSE s.equipment_durability[slot]],
          !.equipped =
              [slot \in DOMAIN s.equipped |->
                  IF broken(slot) THEN None ELSE s.equipped[slot]] ]

\* how process_node_effects ends: the actor state it leaves, the death node it
\* returns (None when it returns None), and the random values it drew
Effects(s, death, dr) == [ state |-> s, returned |-> death, draws |-> dr ]

\* the last two checks: wounds that worsen every tenth turn, death from wounds
WorsenWounds(s, pre) ==
    IF s.health < s.max_health /\ s.turn_count % 10 = 0
    THEN { IF r > 70 /\ s.status_effects["infected"] = 0
           THEN LET t == [s EXCEPT !.health = @ - 5]
                IN  IF t.health <= 0
                    THEN Effects(t, "death_infection", pre \o <<r>>)
                    ELSE Effects(t, None, pre \o <<r>>)
           ELSE Effects(s, IF s.health <= 0 THEN "death_wounds" ELSE None,
                        pre \o <<r>>)
           : r \in randint(1, 100) }
    ELSE { Effects(s, IF s.health <= 0 THEN "death_wounds" ELSE None, pre) }

process_node_effects(s, node_id) ==
    LET s1 == [s EXCEPT !.turn_count = @ + 1,
                        !.visited_nodes = @ \cup {node_id},
                        !.node_history = Append(@, node_id)]
        s2 == StatusEffectsTick(s1)
        hungry == s2.turn_count % 5 = 0
        s3 == IF hungry THEN [s2 EXCEPT !.hunger = @ + 5] ELSE s2
        s4 == IF s3.wetness > 0 /\ ~In("water", lower(node_id))
              THEN [s3 EXCEPT !.wetness = @ - 3] ELSE s3
        cold == s4.wetness > 60 /\ s4.temperature < 50
        s5 == IF cold THEN [s4 EXCEPT !.temperature = @ - 2] ELSE s4
        freezing == cold /\ s5.temperature <= 20
        s6 == IF freezing THEN [s5 EXCEPT !.health = @ - 5] ELSE s5
        s7 == IF s6.turn_count % 8 = 0 THEN WearEquipment(s6) ELSE s6
        s8 == IF ~In("combat", lower(node_id)) /\ ~In("fight", lower(node_id))
              THEN [s7 EXCEPT !.stamina = min(s7.max_stamina, @ + 5)] ELSE s7
        fear == IF s8.fear > 75 THEN { <<r>> : r \in randint(1, 100) } ELSE { <<>> }
        sanity == IF s8.sanity < 30 THEN { <<r>> : r \in randint(1, 100) } ELSE { <<>> }
    IN  IF hungry /\ s3.hunger >= 100
        THEN { Effects(s3, "death_starvation", <<>>) }
        ELSE IF freezing /\ s6.health <= 0
        THEN { Effects(s6, "death_hypothermia", <<>>) }
        ELSE UNION { UNION {
               WorsenWounds(IF f # <<>> /\ f[1] > 90
                            THEN [s8 EXCEPT !.fear = @ + 5] ELSE s8,
                            f \o h)
               : h \in sanity } : f \in fear }

---------------------------------------------------------------------------
(* Time pressure and checkpoints *)

start_time_pressure(s, limit) ==
    [s EXCEPT !.in_timed_scenario = TRUE, !.time_limit = limit, !.action_timer = 0]

\* check_time_pressure with `>=` in place of `>` at line 4648
check_time_pressure_at_limit(s, node_id) ==
    IF ~s.in_timed_scenario
    THEN [ state |-> s, returned |-> None ]
    ELSE LET t == [s EXCEPT !.action_timer = @ + 1]
         IN  [ state |-> t,
               returned |-> IF t.action_timer >= t.time_limit
                            THEN "death_time_pressure" ELSE None ]

\* the actor state check_time_pressure leaves and the death node it returns
check_time_pressure(s, node_id) ==
    IF ~s.in_timed_scenario
    THEN [ state |-> s, returned |-> None ]
    ELSE LET t == [s EXCEPT !.action_timer = @ + 1]
         IN  [ state |-> t,
               returned |->
                   IF t.action_timer > t.time_limit
                   THEN IF In("drown", node_id) \/ In("water", node_id)
                           \/ In("flood", node_id)
                        THEN "death_drowning"
                        ELSE IF In("fire", node_id) \/ In("burn", node_id)
                        THEN "death_burning"
                        ELSE IF In("search", node_id)
                        THEN "death_drowning"
                        ELSE "death_time_pressure"
                   ELSE None ]

\* datetime.now() as a count: later than the timestamp of every file written
now(files) ==
    IF DOMAIN files = {} THEN 1
    ELSE 1 + CHOOSE t \in { files[k].timestamp : k \in DOMAIN files } :
                 \A k \in DOMAIN files : files[k].timestamp <= t

\* create_checkpoint pickling the state as it was before lines 4575-4576
create_checkpoint_state_before(s, node_id, files, checkpoint_name) ==
    LET t == [s EXCEPT !.checkpoints = Append(@, checkpoint_name),
                       !.last_checkpoint_node = node_id]
    IN  [ state |-> t,
          saves |-> (Len(t.checkpoints) :>
                        [ state |-> s, current_node |-> node_id,
                          checkpoint_name |-> checkpoint_name,
                          timestamp |-> now(files) ]) @@ files ]

\* create_checkpoint: the state is pickled after the checkpoint was entered in
\* its list, into the file numbered by the length of that list
create_checkpoint(s, node_id, files, checkpoint_name) ==
    LET t == [s EXCEPT !.checkpoints = Append(@, checkpoint_name),
                       !.last_checkpoint_node = node_id]
    IN  [ state |-> t,
          saves |-> (Len(t.checkpoints) :>
                        [ state |-> t, current_node |-> node_id,
                          checkpoint_name |-> checkpoint_name,
                          timestamp |-> now(files) ]) @@ files ]

\* load_checkpoint(number): the files it can load (none when the file is missing)
load_checkpoint(files, number) ==
    IF number \in DOMAIN files THEN { files[number] } ELSE {}

\* the RESTART branch of run: a checkpoint is loaded (the latest one, or one
\* the player names), or the game is created anew and started at 'start'
Restarted(files) ==
    load_checkpoint(files, Cardinality(DOMAIN files))
    \cup UNION { load_checkpoint(files, k) : k \in DOMAIN files }
    \cup { [ state |-> start_time_pressure(GameState, 5), current_node |-> "start",
             checkpoint_name |-> None, timestamp |-> 0 ] }

---------------------------------------------------------------------------
(* ZagreusGame.handle_custom_action and the routing after an action *)

\* find_next_node_from_ai that does not look at success in a fight
find_next_node_from_ai_ignores_success(current, success, action) ==
    IF In("start", current) THEN "after_corpse_loot"
    ELSE IF In("combat", current) \/ In("fight", current)
    THEN "death_combat_generic"
    ELSE "drainage_tunnel"

find_next_node_from_ai(current, success, action) ==
    IF In("start", current) THEN "after_corpse_loot"
    ELSE IF In("combat", current) \/ In("fight", current)
    THEN IF success THEN "search_victim_body" ELSE "death_combat_generic"
    ELSE "drainage_tunnel"

find_next_victory_node(context) ==
    IF In("ghoul", context) THEN "search_victim_body" ELSE "drainage_tunnel"

\* prev_node = node_history[-2] if len(node_history) > 1 else "start"
PrevNode(s) ==
    IF Len(s.node_history) > 1 THEN s.node_history[Len(s.node_history) - 1]
    ELSE "start"

\* the context handle_custom_action builds for the node the player came from
CustomContext(s, context_node) ==
    LET in_combat == In("combat", lower(context_node)) \/ In("fight", lower(context_node))
    IN  IF in_combat /\ In("ghoul", context_node)
        THEN [ location |-> s.location, in_combat |-> in_combat,
               enemy |-> [ type |-> "ghoul", weaknesses |-> <<"fire", "eyes">>,
                           health |-> 40 ] ]
        ELSE [ location |-> s.location, in_combat |-> in_combat ]

NoCall == [ action |-> "", context |-> EmptyDict, reply |-> NoReply ]

\* how a handler of one typed action ends: the actor state it leaves, the node
\* it moves to, the exception that escaped it, and its call of evaluate_action
Handled(s, next, raised, c, o) ==
    [ state |-> s, returned |-> next, raised |-> raised, call |-> c,
      draws |-> o.draws,
      result |-> [ succeeded |-> o.succeeded, narration |-> o.narration,
                   effects |-> o.effects, rule |-> o.rule ] ]

NoOutcome == [ draws |-> <<>>, succeeded |-> FALSE, narration |-> "",
               effects |-> EmptyDict, rule |-> "" ]

\* `if "damage_taken" in effects: self.state.health -= effects["damage_taken"]`
HealthAfterDamage(s, effects) ==
    IF HasKey(effects, "damage_taken")
    THEN [s EXCEPT !.health = @ - effects["damage_taken"]] ELSE s

handle_custom_action(s, ai, context_node, input, reply) ==
    LET action == IF Len(input) > MAX_INPUT_LENGTH
                  THEN SubSeq(input, 1, MAX_INPUT_LENGTH) ELSE input
        context == CustomContext(s, context_node)
    IN  IF action = ""
        THEN { Handled(s, find_next_node_from_ai(context_node, FALSE, ""), "none",
                       NoCall, NoOutcome) }
        ELSE { LET c == [ action |-> action, context |-> context, reply |-> reply ]
                   t == HealthAfterDamage(s, o.effects)
               IN  IF o.raised # "none"
                   THEN Handled(s, None, o.raised, c, o)
                   ELSE IF HasKey(o.effects, "damage_taken") /\ t.health <= 0
                   THEN Handled(t, "death_combat", "none", c, o)
                   ELSE IF /\ HasKey(o.effects, "damage_dealt")
                           /\ Get(context, "in_combat", FALSE)
                           /\ o.effects["damage_dealt"] > 30
                   THEN Handled(t, find_next_victory_node(context_node), "none", c, o)
                   ELSE Handled(t, find_next_node_from_ai(context_node, o.succeeded,
                                                         action), "none", c, o)
               : o \in evaluate_action(s, ai, action, context, reply) }

\* one round of the combat loop of run; over tells that the loop was left
combat_round(s, ai, node_id, action, reply) ==
    LET context == [ location |-> s.location, in_combat |-> TRUE,
                     enemy |-> Get(nodes[node_id].combat, "enemy", EmptyDict) ]
    IN  IF action = ""
        THEN LET t == [s EXCEPT !.health = @ - 10]
             IN  { IF t.health <= 0
                   THEN Handled(t, "death_combat", "none", NoCall, NoOutcome)
                            @@ [ over |-> TRUE ]
                   ELSE Handled(t, node_id, "none", NoCall, NoOutcome)
                            @@ [ over |-> FALSE ] }
        ELSE { LET c == [ action |-> action, context |-> context, reply |-> reply ]
                   t == HealthAfterDamage(s, o.effects)
               IN  IF o.raised # "none"
                   THEN Handled(s, node_id, o.raised, c, o) @@ [ over |-> TRUE ]
                   ELSE IF HasKey(o.effects, "damage_taken") /\ t.health <= 0
                   THEN Handled(t, "death_combat", "none", c, o) @@ [ over |-> TRUE ]
                   ELSE IF HasKey(o.effects, "damage_dealt")
                           /\ o.effects["damage_dealt"] > 30
                   THEN Handled(t, find_next_victory_node(node_id), "none", c, o)
                            @@ [ over |-> TRUE ]
                   ELSE IF ~o.succeeded /\ ~HasKey(o.effects, "damage_taken")
                   THEN Handled(t, "death_combat", "none", c, o) @@ [ over |-> TRUE ]
                   ELSE Handled(t, node_id, "none", c, o) @@ [ over |-> FALSE ]
               : o \in evaluate_action(s, ai, action, context, reply) }

---------------------------------------------------------------------------
(* ZagreusGame.run: the main loop *)

\* where one iteration of the loop goes once the current node is known
Dispatch(node_id, use_ai_combat) ==
    IF node_id \notin DOMAIN nodes THEN "ended"
    ELSE IF nodes[node_id].kind \in {"CUSTOM_AI", "COMBAT_AI"} THEN "custom_input"
    ELSE IF nodes[node_id].kind # "StoryNode" THEN "AttributeError"
    ELSE IF nodes[node_id].combat # NoCombat /\ use_ai_combat THEN "combat_input"
    ELSE "choice"

\* a new game: ZagreusGame(), then run() with no checkpoint to load
GameInit ==
    /\ game = None
    /\ state = start_time_pressure(GameState, 5)
    /\ current_node = "start"
    /\ USE_AI_COMBAT \in BOOLEAN
    /\ ai_enabled \in (IF USE_AI_COMBAT THEN BOOLEAN ELSE {FALSE})
    /\ saves = EmptyDict
    /\ combat_rounds = 0
    /\ pc = "loop"
    /\ call = NoCall
    /\ draws = <<>>
    /\ result = NoResult

\* one iteration of `while True:` up to the point where it waits for input:
\* process_node_effects, check_time_pressure, the restart, the auto-checkpoint
\* and the look-up of the node
LoopIteration ==
    /\ pc = "loop"
    /\ state.turn_count < MaxTurns
    /\ \E e \in process_node_effects(state, current_node) :
         LET node1 == IF e.returned # None THEN e.returned ELSE current_node
             t == check_time_pressure(e.state, node1)
             node2 == IF t.returned # None THEN t.returned ELSE node1
             auto == /\ node2 \in AUTO_CHECKPOINT_NODES
                     /\ node2 # t.state.last_checkpoint_node
             c == IF auto
                  THEN create_checkpoint(t.state, node2, saves, "Auto: " \o node2)
                  ELSE [ state |-> t.state, saves |-> saves ]
         IN  /\ IF node2 = "RESTART"
                THEN /\ \E r \in Restarted(saves) :
                          /\ state' = r.state
                          /\ current_node' = r.current_node
                     /\ pc' = "loop"
                     /\ UNCHANGED saves
                ELSE /\ state' = c.state
                     /\ saves' = c.saves
                     /\ current_node' = node2
                     /\ pc' = Dispatch(node2, USE_AI_COMBAT)
    /\ combat_rounds' = 0
    /\ call' = NoCall
    /\ draws' = <<>>
    /\ result' = NoResult
    /\ UNCHANGED <<game, ai_enabled, USE_AI_COMBAT>>

\* a CUSTOM_AI / COMBAT_AI node: handle_custom_action(prev_node), then continue
HandleCustomAction ==
    /\ pc = "custom_input"
    /\ \E input \in Texts :
         \E reply \in RepliesFor(ai_enabled /\ input # "",
                                 CustomContext(state, PrevNode(state))) :
           \E h \in handle_custom_action(state, ai_enabled, PrevNode(state),
                                         input, reply) :
             /\ state' = h.state
             /\ current_node' = IF h.raised = "none" THEN h.returned ELSE current_node
             /\ pc' = IF h.raised = "none" THEN "loop" ELSE h.raised
             /\ call' = h.call
             /\ draws' = h.draws
             /\ result' = h.result
    /\ UNCHANGED <<game, ai_enabled, saves, USE_AI_COMBAT, combat_rounds>>

\* what the player types in the rounds of the combat loop: nothing, a block,
\* a strike at a weak point, and an action that is no fight
RoundTexts ==
    { "", "block and defend my head", "attack the EYES", "look around" }

\* one round of the combat loop: `while in_combat and combat_rounds < 20`;
\* what evaluate_action returned is a local of the round and kept nowhere
CombatRound ==
    /\ pc = "combat_input"
    /\ combat_rounds < 20
    /\ \E input \in RoundTexts :
         \E reply \in RepliesFor(ai_enabled /\ input # "",
                                 [ in_combat |-> TRUE ]) :
           \E h \in combat_round(state, ai_enabled, current_node, input, reply) :
             /\ state' = h.state
             /\ current_node' = h.returned
             /\ pc' = IF h.raised # "none" THEN h.raised
                      ELSE IF h.over \/ combat_rounds + 1 >= 20 THEN "loop"
                      ELSE "combat_input"
    /\ combat_rounds' = combat_rounds + 1
    /\ UNCHANGED <<game, ai_enabled, call, draws, result, saves, USE_AI_COMBAT>>

\* the player picks a choice of the node shown (one whose target the model
\* holds); leaving for a drainage node ends the timed scenario
ChooseNext ==
    /\ pc = "choice"
    /\ \E i \in DOMAIN nodes[current_node].choices :
         LET next == nodes[current_node].choices[i]
         IN  /\ next \in DOMAIN nodes
             /\ state' = IF state.in_timed_scenario /\ In("drainage", next)
                         THEN [state EXCEPT !.in_timed_scenario = FALSE] ELSE state
             /\ current_node' = next
    /\ pc' = "loop"
    /\ UNCHANGED <<game, ai_enabled, call, draws, result, saves, USE_AI_COMBAT,
                   combat_rounds>>

\* MAX_INPUT_RETRIES inputs that are no choice number: run returns
InvalidInputs ==
    /\ pc = "choice"
    /\ pc' = "ended"
    /\ UNCHANGED <<game, state, ai_enabled, call, draws, result, current_node, saves,
                   USE_AI_COMBAT, combat_rounds>>

GameNext ==
    \/ LoopIteration
    \/ HandleCustomAction
    \/ CombatRound
    \/ ChooseNext
    \/ InvalidInputs

GameSpec == GameInit /\ [][GameNext]_vars

---------------------------------------------------------------------------
(* handle_custom_action called on its own, from every kind of node *)

\* the nodes the player can have come from: the start, an exploration node, a
\* fight with the ghoul, a fight with other enemies
ContextNodes ==
    { "start", "drainage_tunnel", "fight_ghoul_torch", "fight_three_guards" }

\* the node history when the loop reaches a custom node: where the player came
\* from, then the custom node itself; or the custom node alone
CustomHistories ==
    { <<c, "combat_ghoul">> : c \in ContextNodes } \cup { <<"combat_ghoul">> }

CustomActionInit ==
    /\ game = None
    /\ \E a \in ActorStates, h \in CustomHistories :
         state = [a EXCEPT !.node_history = h, !.turn_count = Len(h),
                           !.visited_nodes = { h[i] : i \in DOMAIN h }]
    /\ ai_enabled \in (IF state.inventory = <<>> /\ state.strength = 5
                       THEN BOOLEAN ELSE {FALSE})
    /\ USE_AI_COMBAT = ai_enabled
    /\ current_node = "combat_ghoul"
    /\ saves = EmptyDict
    /\ combat_rounds = 0
    /\ pc = "custom_input"
    /\ call = NoCall
    /\ draws = <<>>
    /\ result = NoResult

CustomActionNext == HandleCustomAction

CustomActionSpec == CustomActionInit /\ [][CustomActionNext]_vars

---------------------------------------------------------------------------
(* The turns of an actor who carries status effects: an action is resolved, *)
(* then process_node_effects runs for the node                              *)

\* the node visits of this specification stop after MaxVisits
MaxVisits == 4
\* the longest status effect an actor starts with
MaxEffectTurns == 3

\* every counter of status_effects set to n
AllEffects(n) == [e \in DOMAIN GameState.status_effects |-> n]

\* actors who carry no effect, every effect for the same number of turns, or
\* an infection or a poisoning alone for the longest time; and the maimed one
EffectStates ==
    { [GameState EXCEPT !.status_effects = AllEffects(n)] : n \in 0..MaxEffectTurns }
    \cup { [GameState EXCEPT !.status_effects[e] = MaxEffectTurns]
           : e \in {"infected", "poisoned"} }
    \cup { Maimed }

TurnInit ==
    /\ game = None
    /\ state \in EffectStates
    /\ ai_enabled \in (IF state = GameState THEN BOOLEAN ELSE {FALSE})
    /\ USE_AI_COMBAT = ai_enabled
    /\ current_node = "start"
    /\ saves = EmptyDict
    /\ combat_rounds = 0
    /\ pc = "idle"
    /\ call = NoCall
    /\ draws = <<>>
    /\ result = NoResult

\* process_node_effects(current_node) after the action of the turn; what the
\* resolver returned is dropped, the next action can be typed
VisitNode ==
    /\ pc # "idle"
    /\ state.turn_count < MaxVisits
    /\ \E e \in process_node_effects(state, current_node) :
         /\ state' = e.state
         /\ draws' = e.draws
    /\ pc' = "idle"
    /\ call' = NoCall
    /\ result' = NoResult
    /\ UNCHANGED <<game, ai_enabled, current_node, saves, USE_AI_COMBAT, combat_rounds>>

TurnNext ==
    \/ EvaluateAction
    \/ VisitNode

TurnSpec == TurnInit /\ [][TurnNext]_vars

---------------------------------------------------------------------------
(* The checkpoints over the sessions of a player: nodes are visited,        *)
(* checkpoints are created at the key nodes, the game is created anew,      *)
(* checkpoints are loaded                                                   *)

\* create_checkpoint is called at most MaxSaves times
MaxSaves == 3

\* the nodes of this specification: two of the key nodes
VisitedNodes == { "drainage_tunnel", "equip_dagger_continue" }

CheckpointInit ==
    /\ game = None
    /\ state = start_time_pressure(GameState, 5)
    /\ current_node = "start"
    /\ saves = EmptyDict
    /\ ai_enabled = FALSE
    /\ USE_AI_COMBAT = FALSE
    /\ combat_rounds = 0
    /\ pc = "playing"
    /\ call = NoCall
    /\ draws = <<>>
    /\ result = NoResult

\* the player moves on to a node: process_node_effects for it
EnterNode ==
    /\ pc \in {"playing", "loaded", "load_failed"}
    /\ state.turn_count < MaxVisits
    /\ \E n \in VisitedNodes \ {current_node} :
         /\ current_node' = n
         /\ \E e \in process_node_effects(state, n) : state' = e.state
    /\ pc' = "playing"
    /\ UNCHANGED <<game, ai_enabled, call, draws, result, saves, USE_AI_COMBAT, combat_rounds>>

\* the auto-checkpoint of run at a key node
CreateCheckpoint ==
    /\ pc = "playing"
    /\ current_node \in AUTO_CHECKPOINT_NODES
    /\ current_node # state.last_checkpoint_node
    /\ now(saves) <= MaxSaves
    /\ LET c == create_checkpoint(state, current_node, saves, "Auto: " \o current_node)
       IN  state' = c.state /\ saves' = c.saves
    /\ UNCHANGED <<game, ai_enabled, pc, call, draws, result, current_node, USE_AI_COMBAT,
                   combat_rounds>>

\* the game is created anew (a new session, or the restart of run): the files
\* stay where they are
NewGame ==
    /\ pc \in {"playing", "loaded", "load_failed"}
    /\ state' = start_time_pressure(GameState, 5)
    /\ current_node' = "start"
    /\ pc' = "playing"
    /\ UNCHANGED <<game, ai_enabled, call, draws, result, saves, USE_AI_COMBAT, combat_rounds>>

\* load_checkpoint(checkpoint_number), None standing for no number given;
\* call.action keeps the number asked for
LoadCheckpoint ==
    /\ pc \in {"playing", "loaded", "load_failed"}
    /\ saves # EmptyDict
    /\ \E given \in BOOLEAN, checkpoint_number \in 1..MaxSaves :
         LET number == IF given THEN checkpoint_number
                       ELSE Cardinality(DOMAIN saves)
             loaded == load_checkpoint(saves, number)
         IN  /\ call' = [NoCall EXCEPT
                            !.action = IF given THEN ToString(checkpoint_number)
                                       ELSE None]
             /\ IF loaded = {}
                THEN pc' = "load_failed" /\ UNCHANGED <<state, current_node>>
                ELSE /\ pc' = "loaded"
                     /\ \E f \in loaded :
                          state' = f.state /\ current_node' = f.current_node
    /\ UNCHANGED <<game, ai_enabled, draws, result, saves, USE_AI_COMBAT, combat_rounds>>

CheckpointNext ==
    \/ EnterNode
    \/ CreateCheckpoint
    \/ NewGame
    \/ LoadCheckpoint

CheckpointSpec == CheckpointInit /\ [][CheckpointNext]_vars

---------------------------------------------------------------------------
(* story_game.py: the role-playing game "Chronicles of Destiny".  The
   variable game holds the StoryGame object, pc the place the program waits
   for input at: "main_menu", "show_location" (the top of game_loop),
   "input" (the menu of game_loop), "combat" (the loop of start_combat) and
   "exit" (sys.exit was called). *)

\* str.replace(old, new) for a one-character old
RECURSIVE replace(_, _, _)
replace(s, old, new) ==
    IF Len(s) = 0 THEN ""
    ELSE (IF SubSeq(s, 1, 1) = old THEN new ELSE SubSeq(s, 1, 1))
         \o replace(SubSeq(s, 2, Len(s)), old, new)

\* StoryGame.all_items (value and description, which nothing reads, left out)
all_items ==
    ("rusty_sword" :> [ name |-> "Rusty Sword", item_type |-> "WEAPON", attack_bonus |-> 3,
          defense_bonus |-> 0, health_restore |-> 0, usable |-> FALSE ])
    @@ ("iron_sword" :> [ name |-> "Iron Sword", item_type |-> "WEAPON", attack_bonus |-> 7,
          defense_bonus |-> 0, health_restore |-> 0, usable |-> FALSE ])
    @@ ("steel_sword" :> [ name |-> "Steel Sword", item_type |-> "WEAPON", attack_bonus |-> 12,
          defense_bonus |-> 0, health_restore |-> 0, usable |-> FALSE ])
    @@ ("legendary_blade" :> [ name |-> "Legendary Blade of Light", item_type |-> "WEAPON", attack_bonus |-> 25,
          defense_bonus |-> 0, health_restore |-> 0, usable |-> FALSE ])
    @@ ("leather_armor" :> [ name |-> "Leather Armor", item_type |-> "ARMOR", attack_bonus |-> 0,
          defense_bonus |-> 3, health_restore |-> 0, usable |-> FALSE ])
    @@ ("chainmail" :> [ name |-> "Chainmail Armor", item_type |-> "ARMOR", attack_bonus |-> 0,
          defense_bonus |-> 8, health_restore |-> 0, usable |-> FALSE ])
    @@ ("plate_armor" :> [ name |-> "Plate Armor", item_type |-> "ARMOR", attack_bonus |-> 0,
          defense_bonus |-> 15, health_restore |-> 0, usable |-> FALSE ])
    @@ ("health_potion" :> [ name |-> "Health Potion", item_type |-> "CONSUMABLE", attack_bonus |-> 0,
          defense_bonus |-> 0, health_restore |-> 30, usable |-> TRUE ])
    @@ ("greater_health_potion" :> [ name |-> "Greater Health Potion", item_type |-> "CONSUMABLE", attack_bonus |-> 0,
          defense_bonus |-> 0, health_restore |-> 60, usable |-> TRUE ])
    @@ ("ancient_key" :> [ name |-> "Ancient Key", item_type |-> "KEY_ITEM", attack_bonus |-> 0,
          defense_bonus |-> 0, health_restore |-> 0, usable |-> FALSE ])
    @@ ("royal_seal" :> [ name |-> "Royal Seal", item_type |-> "KEY_ITEM", attack_bonus |-> 0,
          defense_bonus |-> 0, health_restore |-> 0, usable |-> FALSE ])
    @@ ("crystal_shard" :> [ name |-> "Crystal Shard", item_type |-> "QUEST_ITEM", attack_bonus |-> 0,
          defense_bonus |-> 0, health_restore |-> 0, usable |-> FALSE ])

\* StoryGame.locations: the name and the connections of each location
locations ==
    ("village" :> [ name |-> "Willowbrook Village",
          connections |-> ("north" :> "forest") @@ ("east" :> "mountain") @@ ("south" :> "ruins") @@ ("west" :> "tavern") ])
    @@ ("tavern" :> [ name |-> "The Rusty Tankard Tavern",
          connections |-> ("east" :> "village") ])
    @@ ("forest" :> [ name |-> "Dark Forest",
          connections |-> ("south" :> "village") @@ ("north" :> "forest_deep") ])
    @@ ("forest_deep" :> [ name |-> "Deep Forest",
          connections |-> ("south" :> "forest") @@ ("east" :> "witch_hut") ])
    @@ ("witch_hut" :> [ name |-> "Witch's Hut",
          connections |-> ("west" :> "forest_deep") ])
    @@ ("mountain" :> [ name |-> "Mountain Path",
          connections |-> ("west" :> "village") @@ ("north" :> "mountain_peak") ])
    @@ ("mountain_peak" :> [ name |-> "Mountain Peak",
          connections |-> ("south" :> "mountain") @@ ("enter" :> "temple") ])
    @@ ("temple" :> [ name |-> "Ancient Temple",
          connections |-> ("exit" :> "mountain_peak") ])
    @@ ("ruins" :> [ name |-> "Ancient Ruins",
          connections |-> ("north" :> "village") @@ ("down" :> "catacombs") ])
    @@ ("catacombs" :> [ name |-> "Catacombs",
          connections |-> ("up" :> "ruins") @@ ("deeper" :> "throne_room") ])
    @@ ("throne_room" :> [ name |-> "Forgotten Throne Room",
          connections |-> ("back" :> "catacombs") ])

\* the key load_game looks an item name up under, if the table has it
item_name_key(name) == replace(lower(name), " ", "_")

\* Character(...) with the defaults of the dataclass
Character(name, health, max_health, attack, defense, level, experience, gold) ==
    [ name |-> name, health |-> health, max_health |-> max_health,
      attack |-> attack, defense |-> defense, level |-> level,
      experience |-> experience, inventory |-> <<>>,
      equipped_weapon |-> None, equipped_armor |-> None, gold |-> gold ]

get_total_attack(c) ==
    c.attack + (IF c.equipped_weapon # None
                THEN all_items[c.equipped_weapon].attack_bonus ELSE 0)

get_total_defense(c) ==
    c.defense + (IF c.equipped_armor # None
                 THEN all_items[c.equipped_armor].defense_bonus ELSE 0)

\* take_damage without the floor at 0
take_damage_below_zero(c, damage) ==
    [c EXCEPT !.health = c.health - max(1, damage - get_total_defense(c))]

\* Character.take_damage
take_damage(c, damage) ==
    [c EXCEPT !.health = max(0, c.health - max(1, damage - get_total_defense(c)))]

is_alive(c) == c.health > 0

level_up(c) ==
    [c EXCEPT !.level = c.level + 1, !.max_health = c.max_health + 10,
              !.health = c.max_health + 10, !.attack = c.attack + 2,
              !.defense = c.defense + 1, !.experience = 0]

gain_experience(c, exp) ==
    LET c1 == [c EXCEPT !.experience = c.experience + exp]
    IN  IF c1.experience >= c1.level * 100 THEN level_up(c1) ELSE c1

add_item(c, item) == [c EXCEPT !.inventory = Append(c.inventory, item)]

\* list.remove: the first occurrence goes
remove_item(c, item) ==
    IF \E i \in DOMAIN c.inventory : c.inventory[i] = item
    THEN LET i == CHOOSE i \in DOMAIN c.inventory :
                    /\ c.inventory[i] = item
                    /\ \A j \in 1..(i - 1) : c.inventory[j] # item
         IN  [c EXCEPT !.inventory = SubSeq(c.inventory, 1, i - 1)
                                      \o SubSeq(c.inventory, i + 1, Len(c.inventory))]
    ELSE c

equip_weapon(c, weapon) ==
    IF all_items[weapon].item_type # "WEAPON" THEN c
    ELSE [c EXCEPT !.equipped_weapon = weapon]

equip_armor(c, armor) ==
    IF all_items[armor].item_type # "ARMOR" THEN c
    ELSE [c EXCEPT !.equipped_armor = armor]

\* Item.use
use(item, character) ==
    IF ~all_items[item].usable THEN character
    ELSE IF all_items[item].health_restore > 0
    THEN [character EXCEPT !.health =
             min(character.max_health, character.health + all_items[item].health_restore)]
    ELSE character

\* StoryGame.use_item
use_item(player, item) ==
    IF all_items[item].item_type = "WEAPON" THEN equip_weapon(player, item)
    ELSE IF all_items[item].item_type = "ARMOR" THEN equip_armor(player, item)
    ELSE IF all_items[item].usable
    THEN IF all_items[item].health_restore > 0
         THEN remove_item(use(item, player), item) ELSE use(item, player)
    ELSE player

\* StoryGame.rest
rest(player) ==
    IF player.gold < 20 THEN player
    ELSE IF player.health = player.max_health THEN player
    ELSE [player EXCEPT !.gold = player.gold - 20, !.health = player.max_health]

\* Enemy(name, health, attack, defense, exp_reward, gold_reward, loot)
NewEnemy(name, health, attack, defense, exp_reward, gold_reward, loot) ==
    [ name |-> name, health |-> health, max_health |-> health, attack |-> attack,
      defense |-> defense, exp_reward |-> exp_reward, gold_reward |-> gold_reward,
      loot |-> loot ]

create_enemy(enemy_type) ==
    CASE enemy_type = "wolf" ->
           NewEnemy("Dire Wolf", 40, 12, 3, 30, 15, <<"health_potion">>)
      [] enemy_type = "bandit" ->
           NewEnemy("Bandit", 50, 15, 5, 40, 25, <<"iron_sword", "health_potion">>)
      [] enemy_type = "dark_knight" ->
           NewEnemy("Dark Knight", 80, 20, 10, 75, 50, <<"steel_sword", "chainmail">>)
      [] enemy_type = "shadow_beast" ->
           NewEnemy("Shadow Beast", 100, 25, 8, 100, 75,
                    <<"greater_health_potion", "crystal_shard">>)
      [] enemy_type = "shadow_king" ->
           NewEnemy("Shadow King", 200, 35, 15, 500, 1000,
                    <<"legendary_blade", "royal_seal">>)
      [] OTHER -> NewEnemy("Goblin", 30, 8, 2, 25, 10, <<"health_potion">>)

\* no enemy: the game is not in combat
NoEnemy == NewEnemy("", 0, 0, 0, 0, 0, <<>>)

\* Enemy.take_damage
enemy_take_damage(enemy, damage) ==
    [enemy EXCEPT !.health = max(0, enemy.health - max(1, damage - enemy.defense))]

\* create_player
create_player(name) ==
    LET c == Character(name, 100, 100, 10, 5, 1, 0, 50)
        c1 == add_item(add_item(add_item(add_item(c, "rusty_sword"), "leather_armor"),
                                "health_potion"), "health_potion")
    IN  equip_armor(equip_weapon(c1, "rusty_sword"), "leather_armor")

\* StoryGame(): the object after construction, with a blank character for
\* the player None; save_file holds the contents of savegame.json, <<>>
\* while the file does not exist; enemy is the enemy of the running
\* start_combat call
StoryGame ==
    [ state |-> "MENU", player |-> Character("", 0, 0, 0, 0, 0, 0, 0),
      current_location |-> None,
      visited |-> {}, story_flags |-> {}, chapter |-> 1,
      save_file |-> <<>>, enemy |-> NoEnemy ]

\* start_new_game: the player is created and the game is PLAYING
start_new_game(g) ==
    [g EXCEPT !.player = create_player("Hero"), !.current_location = "village",
              !.state = "PLAYING"]

\* save_game: save_data is written to the save file
save_game(g) ==
    [g EXCEPT !.save_file = <<
    [ player |->
        [ name |-> g.player.name, health |-> g.player.health,
          max_health |-> g.player.max_health, attack |-> g.player.attack,
          defense |-> g.player.defense, level |-> g.player.level,
          experience |-> g.player.experience, gold |-> g.player.gold,
          inventory |-> [ i \in DOMAIN g.player.inventory |->
                            all_items[g.player.inventory[i]].name ],
          equipped_weapon |-> IF g.player.equipped_weapon # None
                              THEN all_items[g.player.equipped_weapon].name ELSE None,
          equipped_armor |-> IF g.player.equipped_armor # None
                             THEN all_items[g.player.equipped_armor].name ELSE None ],
      current_location |-> locations[g.current_location].name,
      chapter |-> g.chapter,
      story_flags |-> g.story_flags,
      visited_locations |-> g.visited ] >>]

\* load_game: the items and the equipment are looked up by item_name_key
load_game(g) ==
    IF g.save_file = <<>> THEN g
    ELSE
      LET data == g.save_file[1]
          player_data == data.player
          c == Character(player_data.name, player_data.health, player_data.max_health,
                         player_data.attack, player_data.defense, player_data.level,
                         player_data.experience, player_data.gold)
          found == SelectSeq(player_data.inventory,
                             LAMBDA n : item_name_key(n) \in DOMAIN all_items)
          c1 == [c EXCEPT !.inventory = [ i \in DOMAIN found |-> item_name_key(found[i]) ]]
          c2 == IF player_data.equipped_weapon # None
                   /\ item_name_key(player_data.equipped_weapon) \in DOMAIN all_items
                THEN [c1 EXCEPT !.equipped_weapon = item_name_key(player_data.equipped_weapon)]
                ELSE c1
          c3 == IF player_data.equipped_armor # None
                   /\ item_name_key(player_data.equipped_armor) \in DOMAIN all_items
                THEN [c2 EXCEPT !.equipped_armor = item_name_key(player_data.equipped_armor)]
                ELSE c2
          named == { k \in DOMAIN locations : locations[k].name = data.current_location }
      IN  [g EXCEPT !.player = c3,
                    !.current_location = IF named = {} THEN g.current_location
                                         ELSE CHOOSE k \in named : TRUE,
                    !.chapter = data.chapter,
                    !.story_flags = data.story_flags,
                    !.visited = g.visited \cup (data.visited_locations \cap DOMAIN locations),
                    !.state = "PLAYING"]

\* trigger_location_event: the enemy the location brings up, None for no
\* event; forest and mountain stand for random.random() < 0.4 and < 0.3
location_enemy(g, forest, mountain) ==
    LET loc_name == lower(locations[g.current_location].name)
    IN  IF In("forest", loc_name) /\ forest
        THEN (IF In("deep", loc_name) THEN "wolf" ELSE "goblin")
        ELSE IF In("mountain", loc_name) /\ mountain THEN "bandit"
        ELSE IF In("catacomb", loc_name) THEN "shadow_beast"
        ELSE IF In("throne", loc_name) /\ "defeated_shadow_king" \notin g.story_flags
        THEN "shadow_king"
        ELSE None

\* combat_victory: the rewards, and the loot items that drop[i] lets fall
\* (random.random() < 0.6 for each; no loot list is longer than two)
combat_victory(g, drop) ==
    LET enemy == g.enemy
        c == gain_experience(g.player, enemy.exp_reward)
        c1 == [c EXCEPT !.gold = c.gold + enemy.gold_reward]
        c2 == IF Len(enemy.loot) >= 1 /\ drop[1] THEN add_item(c1, enemy.loot[1]) ELSE c1
        c3 == IF Len(enemy.loot) >= 2 /\ drop[2] THEN add_item(c2, enemy.loot[2]) ELSE c2
    IN  [g EXCEPT !.player = c3]

\* the usable items of the inventory, in order
consumables(player) == SelectSeq(player.inventory, LAMBDA k : all_items[k].usable)

\* combat_use_item with the number typed (0: "back" or anything invalid)
combat_use_item(g, idx) ==
    IF idx \in DOMAIN consumables(g.player)
    THEN LET item == consumables(g.player)[idx]
             c == use(item, g.player)
         IN  [g EXCEPT !.player = IF all_items[item].health_restore > 0
                                  THEN remove_item(c, item) ELSE c]
    ELSE g

\* the end of start_combat and the rest of trigger_location_event after it:
\* the next place of the program and the game there
AfterCombat(g, final) ==
    LET g1 == [g EXCEPT !.state = "PLAYING"]
        won == IF ~is_alive(g1.enemy)
               THEN { combat_victory(g1, drop) : drop \in [1..2 -> BOOLEAN] }
               ELSE {g1}
    IN  { IF final /\ is_alive(g2.player)
          THEN <<"exit", [g2 EXCEPT !.story_flags =
                                       g2.story_flags \cup {"defeated_shadow_king"},
                                    !.state = "VICTORY"]>>
          ELSE <<"input", [g2 EXCEPT !.enemy = NoEnemy]>> : g2 \in won }

StoryInit ==
    /\ game = StoryGame
    /\ pc = "main_menu"
    /\ state = GameState
    /\ ai_enabled = FALSE
    /\ USE_AI_COMBAT = FALSE
    /\ current_node = "start"
    /\ saves = EmptyDict
    /\ combat_rounds = 0
    /\ call = NoCall
    /\ draws = <<>>
    /\ result = NoResult

StoryUnchanged ==
    UNCHANGED <<state, ai_enabled, call, draws, result, current_node, saves,
                USE_AI_COMBAT, combat_rounds>>

\* main_menu: "1" starts a new game, "2" loads one and plays it if that worked
MainMenu ==
    /\ pc = "main_menu"
    /\ \E typed \in {"1", "2"} :
         LET g == IF typed = "1" THEN start_new_game(game) ELSE load_game(game)
         IN  /\ game' = g
             /\ pc' = IF g.state = "PLAYING" THEN "show_location" ELSE "main_menu"
    /\ StoryUnchanged

\* game_loop up to the prompt: show_location visits the place, and a place
\* seen for the first time may start a combat
ShowLocation ==
    /\ pc = "show_location"
    /\ game.state = "PLAYING"
    /\ IF game.current_location \in game.visited
       THEN /\ pc' = "input"
            /\ UNCHANGED game
       ELSE \E forest \in BOOLEAN, mountain \in BOOLEAN :
              LET g == [game EXCEPT !.visited = game.visited \cup {game.current_location}]
                  enemy_type == location_enemy(g, forest, mountain)
                  final == enemy_type = "shadow_king"
                  g1 == [g EXCEPT !.state = "COMBAT", !.enemy = create_enemy(enemy_type)]
              IN  IF enemy_type = None
                  THEN pc' = "input" /\ game' = g
                  ELSE IF (is_alive(g1.enemy) /\ is_alive(g1.player))
                  THEN pc' = (IF final THEN "final_combat" ELSE "combat") /\ game' = g1
                  ELSE \E after \in AfterCombat(g1, final) :
                         pc' = after[1] /\ game' = after[2]
    /\ StoryUnchanged

\* one round of the loop of start_combat: the player's choice (combat_attack
\* deals random.randint(int(attack * 0.8), int(attack * 1.2))), the enemy's
\* turn, and once the loop ends the code after it
CombatTurn ==
    /\ pc \in {"combat", "final_combat"}
    /\ \E typed \in {"a", "i", "r", ""} :
       \E damage \in (IF typed = "a"
                      THEN randint((get_total_attack(game.player) * 8) \div 10,
                                   (get_total_attack(game.player) * 12) \div 10)
                      ELSE {0}),
          idx \in (IF typed = "i" THEN 0..Len(consumables(game.player)) ELSE {0}),
          fled \in (IF typed = "r" THEN BOOLEAN ELSE {FALSE}) :
         LET g1 == IF typed = "a"
                   THEN [game EXCEPT !.enemy = enemy_take_damage(game.enemy, damage)]
                   ELSE IF typed = "i" THEN combat_use_item(game, idx)
                   ELSE game
             broke == typed = "r" /\ fled
             g2 == IF typed # "" /\ ~broke /\ is_alive(g1.enemy)
                   THEN [g1 EXCEPT !.player = take_damage(g1.player, g1.enemy.attack)]
                   ELSE g1
         IN  IF ~broke /\ (is_alive(g2.enemy) /\ is_alive(g2.player))
             THEN pc' = pc /\ game' = g2
             ELSE \E after \in AfterCombat(g2, pc = "final_combat") :
                    pc' = after[1] /\ game' = after[2]
    /\ StoryUnchanged

\* move_to_location with the direction typed
move_to_location(g, typed) ==
    LET connections == locations[g.current_location].connections
    IN  IF typed # "back" /\ typed \in DOMAIN connections
           /\ connections[typed] \in DOMAIN locations
        THEN [g EXCEPT !.current_location = connections[typed]]
        ELSE g

\* what the player types at the menu of game_loop, and at the prompt of
\* move_to_location: the way from the village down to the throne room and
\* back
MenuChoices == {"move", "inventory", "rest", "save", "load", "help", "quit"}

Route == {"south", "down", "deeper", "back"}

\* handle_input: the menu choice with what is typed inside it (show_inventory
\* uses the item idx and goes back), then the test of game_loop
HandleInput ==
    /\ pc = "input"
    /\ \E typed \in MenuChoices :
       \E direction \in (IF typed = "move" THEN Route ELSE {"back"}),
          idx \in (IF typed = "inventory" THEN 0..Len(game.player.inventory) ELSE {0}) :
         LET g == CASE typed = "move" -> move_to_location(game, direction)
                    [] typed = "inventory" ->
                         IF idx = 0 THEN game
                         ELSE [game EXCEPT !.player =
                                  use_item(game.player, game.player.inventory[idx])]
                    [] typed = "rest" -> [game EXCEPT !.player = rest(game.player)]
                    [] typed = "save" -> save_game(game)
                    [] typed = "load" -> load_game(game)
                    [] OTHER -> game
         IN  IF typed = "quit"
             THEN pc' = "exit" /\ game' = g
             ELSE IF ~is_alive(g.player)
             THEN pc' = "exit" /\ game' = [g EXCEPT !.state = "GAME_OVER"]
             ELSE pc' = "show_location" /\ game' = g
    /\ StoryUnchanged

StoryNext ==
    \/ MainMenu
    \/ ShowLocation
    \/ CombatTurn
    \/ HandleInput

StorySpec == StoryInit /\ [][StoryNext]_vars

---------------------------------------------------------------------------
(* The operations on the player of story_game.py in any order: the player
   of a new game takes the attack of an enemy create_enemy knows, uses or
   equips an item of the inventory, rests, and wins a combat against such an
   enemy.  pc names the operation done last. *)

\* the most levels, items and gold the player gathers
MaxLevel == 2

MaxItems == 4

MaxGold == 60

\* the enemies met: the weakest, whose attack the starting defense absorbs,
\* and one that wounds
EnemyKinds == {"goblin", "dark_knight"}

PlayerInit ==
    /\ game = [start_new_game(StoryGame) EXCEPT !.visited = {"village"}]
    /\ pc = "create_player"
    /\ state = GameState
    /\ ai_enabled = FALSE
    /\ USE_AI_COMBAT = FALSE
    /\ current_node = "start"
    /\ saves = EmptyDict
    /\ combat_rounds = 0
    /\ call = NoCall
    /\ draws = <<>>
    /\ result = NoResult

\* the enemy's turn of start_combat: player.take_damage(enemy.attack)
TakeDamage ==
    /\ \E enemy_type \in EnemyKinds :
         game' = [game EXCEPT !.player =
                     take_damage(game.player, create_enemy(enemy_type).attack)]
    /\ pc' = "take_damage"
    /\ StoryUnchanged

\* use_item on an item of the inventory
UseItem ==
    /\ \E idx \in DOMAIN game.player.inventory :
         game' = [game EXCEPT !.player = use_item(game.player, game.player.inventory[idx])]
    /\ pc' = "use_item"
    /\ StoryUnchanged

Rest ==
    /\ game' = [game EXCEPT !.player = rest(game.player)]
    /\ pc' = "rest"
    /\ StoryUnchanged

\* combat_victory over an enemy of any type
CombatVictory ==
    /\ game.player.level < MaxLevel
    /\ \E enemy_type \in EnemyKinds, drop \in [1..2 -> BOOLEAN] :
         /\ Len(game.player.inventory) + Len(create_enemy(enemy_type).loot) <= MaxItems
         /\ game.player.gold + create_enemy(enemy_type).gold_reward <= MaxGold
         /\ game' = [combat_victory([game EXCEPT !.enemy = create_enemy(enemy_type)], drop)
                       EXCEPT !.enemy = NoEnemy]
    /\ pc' = "combat_victory"
    /\ StoryUnchanged

PlayerNext ==
    \/ TakeDamage
    \/ UseItem
    \/ Rest
    \/ CombatVictory

PlayerSpec == PlayerInit /\ [][PlayerNext]_vars

---------------------------------------------------------------------------
(* Saving and loading: the player of a new game picks items of the item
   table up (Character.add_item, as combat_victory calls it for the loot of
   an enemy), uses or equips items, and the game is saved and loaded. *)

\* the items picked up: loot of the bandit, the Dark Knight and the Shadow King
FoundItems == {"iron_sword", "chainmail", "legendary_blade"}

AddItem ==
    /\ Len(game.player.inventory) < MaxItems
    /\ \E item \in FoundItems : game' = [game EXCEPT !.player = add_item(game.player, item)]
    /\ pc' = "add_item"
    /\ StoryUnchanged

SaveGame ==
    /\ game' = save_game(game)
    /\ pc' = "save_game"
    /\ StoryUnchanged

LoadGame ==
    /\ game' = load_game(game)
    /\ pc' = "load_game"
    /\ StoryUnchanged

SaveNext ==
    \/ AddItem
    \/ UseItem
    \/ SaveGame
    \/ LoadGame

SaveSpec == PlayerInit /\ [][SaveNext]_vars

---------------------------------------------------------------------------
(* The rule orders as the specification states them, and the call at hand *)

CombatOrder ==
    << [ rule |-> "dodge",   keywords |-> {"dodge", "evade", "roll"} ],
       [ rule |-> "block",   keywords |-> {"block", "parry", "defend"} ],
       [ rule |-> "eye",     keywords |-> {"eye"} ],
       [ rule |-> "head",    keywords |-> {"head", "skull", "brain"} ],
       [ rule |-> "leg",     keywords |-> {"leg", "knee"} ],
       [ rule |-> "throat",  keywords |-> {"throat", "neck"} ],
       [ rule |-> "fire",    keywords |-> {"fire", "burn", "torch"} ],
       [ rule |-> "feint",   keywords |-> {"feint", "fake", "trick"} ],
       [ rule |-> "grapple", keywords |-> {"grapple", "wrestle", "grab"} ] >>

ExplorationOrder ==
    << [ rule |-> "sneak",    keywords |-> {"sneak", "stealth", "quiet"} ],
       [ rule |-> "search",   keywords |-> {"search", "look", "examine"} ],
       [ rule |-> "climb",    keywords |-> {"climb", "jump", "leap"} ],
       [ rule |-> "swim",     keywords |-> {"swim", "dive", "underwater"} ],
       [ rule |-> "persuade", keywords |-> {"persuade", "convince", "talk", "negotiate"} ],
       [ rule |-> "solve",    keywords |-> {"solve", "decipher", "puzzle", "read"} ],
       [ rule |-> "trap",     keywords |-> {"trap", "disarm", "disable"} ],
       [ rule |-> "heal",     keywords |-> {"heal", "bandage", "medicine"} ],
       [ rule |-> "break",    keywords |-> {"break", "smash", "destroy"} ],
       [ rule |-> "listen",   keywords |-> {"listen", "hear"} ],
       [ rule |-> "hide",     keywords |-> {"hide", "conceal"} ] >>

\* the rules of an order that have a keyword occurring in the text
Matching(order, text) ==
    { i \in DOMAIN order : \E kw \in order[i].keywords : In(kw, text) }

\* the earliest rule of the order with a keyword in the text, else the fallback
EarliestRule(order, text, fallback) ==
    IF Matching(order, text) = {} THEN fallback
    ELSE order[CHOOSE i \in Matching(order, text) :
                   \A j \in Matching(order, text) : i <= j].rule

\* the rule each text of the model belongs to, by the stated orders
CombatRuleOf == [ t \in Texts |-> EarliestRule(CombatOrder, lower(t), "generic") ]

ExplorationRuleOf ==
    [ t \in Texts |-> EarliestRule(ExplorationOrder, lower(t), "default") ]

Called == pc # "idle"

InCombat == Called /\ "in_combat" \in DOMAIN call.context /\ call.context["in_combat"]

Exploring == Called /\ ~InCombat

\* the remote call was made and did not yield a usable reply
RemoteFailed ==
    /\ InCombat /\ ai_enabled
    /\ \/ call.reply.kind = "error"
       \/ ~call.reply.has_json
       \/ "success" \notin DOMAIN call.reply.json
       \/ "description" \notin DOMAIN call.reply.json

\* the call was resolved by the rule-based combat resolver
RuleBasedCombat == InCombat /\ (~ai_enabled \/ RemoteFailed)

NotStunned == state.status_effects["stunned"] <= 0

DamageTaken == IF "damage_taken" \in DOMAIN result.effects
               THEN result.effects["damage_taken"] ELSE 0

DamageDealt == IF "damage_dealt" \in DOMAIN result.effects
               THEN result.effects["damage_dealt"] ELSE 0

StatusTags == IF "status" \in DOMAIN result.effects
              THEN result.effects["status"] ELSE <<>>

---------------------------------------------------------------------------
(* Claims *)

\* C1: in combat, with the actor not stunned, the rule-based resolver returns
\* from the block of the earliest rule, in the order dodge, block, eye, head,
\* leg, throat, fire, feint, grapple, that has a keyword in the lowercased
\* text, and from the generic attack when no rule has one; "grab its leg" is a
\* leg strike.
C1_CombatOrder ==
    (RuleBasedCombat /\ NotStunned) =>
        /\ pc = "returned"
        /\ result.rule = CombatRuleOf[call.action]
        /\ (call.action = "grab its leg" => result.rule = "leg")

C1_Witness ==
    /\ RuleBasedCombat /\ NotStunned
    /\ call.action = "grab its leg"
    /\ result.rule = "leg"
    /\ DamageDealt > 0

\* C2: in exploration the result comes from the block of the earliest rule, in
\* the order sneak, search/look/examine, climb, swim, persuade, solve, trap,
\* heal, break, listen, hide, that has a keyword in the lowercased text, and
\* from the fallback only when no rule has one.
C2_ExplorationOrder ==
    Exploring =>
        result.rule = ExplorationRuleOf[call.action]


\* C3: for a fixed action text and a fixed in_combat flag the block that
\* produces the result is the same for every actor state and every random
\* draw (the stunned exit aside): no other actor state and no other draws
\* resolve the call at hand in another block.
C3_ClassificationIndependent ==
    (Called /\ (InCombat => NotStunned)) =>
        \A s2 \in ActorStates :
            (InCombat => s2.status_effects["stunned"] <= 0) =>
                \A o \in evaluate_action(s2, ai_enabled, call.action, call.context,
                                         call.reply) :
                    o.rule = result.rule

\* C4: a call of evaluate_action leaves every field of the actor state as it
\* was, in combat and in exploration, on the remote path and on its fallback.
C4_StateUnchanged == [][state' = state]_vars

C4_Witness ==
    /\ pc = "returned"
    /\ DamageTaken > 0
    /\ state.health = GameState.health
    /\ state \in ActorStates

\* C5: in combat with stunned > 0 the rule-based resolver returns failure with
\* damage_taken = 0, damage_dealt = 0, no status tag and the fixed narration,
\* for every text, and draws no random value: no keyword rule is consulted.
C5_StunnedFailsFirst ==
    (RuleBasedCombat /\ state.status_effects["stunned"] > 0) =>
        /\ pc = "returned"
        /\ result.succeeded = FALSE
        /\ DamageTaken = 0 /\ DamageDealt = 0 /\ StatusTags = <<>>
        /\ result.narration = "You're stunned and cannot act effectively this turn!"
        /\ result.rule = "stunned"
        /\ draws = <<>>

C5_Witness ==
    /\ RuleBasedCombat
    /\ state.status_effects["stunned"] > 0
    /\ call.action = "Dodge left"
    /\ pc = "returned" /\ result.succeeded = FALSE

\* what the rule-based combat resolver alone yields for the lowercased text, on
\* the actor states the remote strategy is explored with
RuleBasedOutcomes ==
    [ s \in Profiles, t \in Texts, c \in Contexts |-> _evaluate_combat(s, lower(t), c) ]

\* C6: when the remote call raises, returns no parsable JSON, or returns JSON
\* without 'success' or 'description', evaluate_action raises nothing and
\* returns a result of the rule-based combat resolver for the lowercased text,
\* the same context and the same random draws.
C6_RemoteFailureFallsBack ==
    RemoteFailed =>
        /\ pc = "returned"
        /\ [ raised |-> "none", succeeded |-> result.succeeded,
             narration |-> result.narration, effects |-> result.effects,
             rule |-> result.rule, draws |-> draws ]
               \in RuleBasedOutcomes[state, call.action, call.context]

C6_Witness ==
    /\ RemoteFailed
    /\ call.reply.kind = "text" /\ call.reply.has_json
    /\ "description" \notin DOMAIN call.reply.json
    /\ call.action = "Dodge left"
    /\ pc = "returned" /\ result.rule = "dodge"

C9_ClimbReturns ==
    ( /\ Exploring
      /\ ExplorationRuleOf[call.action] = "climb"
      /\ state.left_arm /\ state.right_arm ) =>
        /\ pc = "returned"
        /\ LET rope == /\ "rope" \in DOMAIN state.equipped
                       /\ state.equipped["rope"] # None
               chance == state.agility * 8 + state.strength * 5
                         - (IF state.wetness > 60 THEN 20 ELSE 0)
                         - (IF state.stamina < 30 THEN 15 ELSE 0)
                         + (IF rope THEN 10 ELSE 0)
           IN  /\ result.succeeded <=> draws[1] < chance
               /\ result.succeeded => result.effects["stamina_cost"] = 15
               /\ ~result.succeeded => DamageTaken \in 10..30

\* C10: with left_arm or right_arm lost, a climb/jump/leap action in
\* exploration whose text matches no earlier rule returns failure with the
\* fixed narration and an effects map without stamina cost and without damage,
\* whatever the other fields of the actor state are.
C10_NoClimbWithoutArms ==
    ( /\ Exploring
      /\ ExplorationRuleOf[call.action] = "climb"
      /\ ~state.left_arm \/ ~state.right_arm ) =>
        /\ pc = "returned"
        /\ result.succeeded = FALSE
        /\ result.narration = "You can't climb with your injured arms!"
        /\ result.rule = "climb"
        /\ "stamina_cost" \notin DOMAIN result.effects
        /\ "damage_taken" \notin DOMAIN result.effects
        /\ draws = <<>>

C10_Witness ==
    /\ Exploring
    /\ call.action = "climb the wall"
    /\ ~state.left_arm /\ state.right_arm
    /\ state.agility = MaxAbility
    /\ pc = "returned" /\ result.succeeded = FALSE

\* the text of the call has no keyword of any combat or exploration rule
KeywordFree ==
    /\ CombatRuleOf[call.action] = "generic"
    /\ ExplorationRuleOf[call.action] = "default"

\* C11 as stated: for an empty or keyword-free text evaluate_action, in combat
\* or not, raises nothing and returns succeeded = true with the narration
\* 'You attempt your action...' and no mechanical effect.
C11_KeywordFreeIsFallback ==
    (Called /\ KeywordFree) =>
        /\ pc = "returned"
        /\ result.succeeded
        /\ result.narration = "You attempt your action..."
        /\ DamageTaken = 0 /\ DamageDealt = 0 /\ StatusTags = <<>>

\* C11 as amended: for an empty or keyword-free text evaluate_action raises
\* nothing; in exploration it returns succeeded = true with the narration
\* 'You attempt your action...', an empty effects map and no random draw; in
\* combat the rule-based resolver (actor not stunned) resolves the text as a
\* generic attack, which succeeds with damage_dealt >= 1.
C11_KeywordFreeNeverRaises ==
    (Called /\ KeywordFree) =>
        /\ pc = "returned"
        /\ Exploring =>
              /\ result.succeeded
              /\ result.narration = "You attempt your action..."
              /\ result.effects = EmptyDict
              /\ result.rule = "default"
              /\ draws = <<>>
        /\ (RuleBasedCombat /\ NotStunned) =>
              /\ result.succeeded
              /\ result.rule = "generic"
              /\ DamageDealt >= 1

C11_Witness ==
    /\ Exploring
    /\ call.action = ""
    /\ pc = "returned" /\ result.succeeded
    /\ result.narration = "You attempt your action..."

\* the enemy of the call's context, and its weakness tags
Enemy == IF "enemy" \in DOMAIN call.context THEN call.context["enemy"] ELSE EmptyDict

Weaknesses == IF "weaknesses" \in DOMAIN Enemy THEN Enemy["weaknesses"] ELSE <<>>

WeaponBonus(n) == IF state.equipped["weapon"] # None THEN n ELSE 0

\* C14: a strike at the eyes against the ghoul (weaknesses fire and eyes),
\* actor not stunned, text matching no earlier rule, returns succeeded = true
\* for every roll, with damage_dealt between 20 + strength and 40 + strength
\* (both + 15 with a weapon equipped) and damage_taken = 0; the only status tag
\* it can carry is enemy_blinded.
C14_EyeStrikeOnGhoul ==
    ( /\ RuleBasedCombat /\ NotStunned
      /\ CombatRuleOf[call.action] = "eye"
      /\ Enemy = Ghoul ) =>
        /\ pc = "returned"
        /\ result.succeeded
        /\ DamageDealt >= 20 + state.strength + WeaponBonus(15)
        /\ DamageDealt <= 40 + state.strength + WeaponBonus(15)
        /\ DamageTaken = 0
        /\ StatusTags \in { <<>>, <<"enemy_blinded">> }

C14_Witness ==
    /\ RuleBasedCombat /\ NotStunned
    /\ call.action = "attack the EYES"
    /\ Enemy = Ghoul
    /\ state.equipped["weapon"] # None
    /\ pc = "returned" /\ result.succeeded
    /\ DamageDealt = 40 + state.strength + 15
    /\ StatusTags = <<"enemy_blinded">>

\* C15: a weakness tag grants the guaranteed branch of the matching strike: an
\* eye strike against an enemy whose weaknesses carry 'eyes' succeeds for
\* every roll and costs the actor no damage, whatever the enemy type, and a leg
\* strike against an enemy tagged 'legs' succeeds and inflicts enemy_slowed.
C15_WeaknessTagGuaranteesHit ==
    (RuleBasedCombat /\ NotStunned) =>
        /\ (CombatRuleOf[call.action] = "eye" /\ InList("eyes", Weaknesses)) =>
              /\ pc = "returned" /\ result.succeeded
              /\ DamageTaken = 0
              /\ DamageDealt >= 20 + state.strength
        /\ (CombatRuleOf[call.action] = "leg" /\ InList("legs", Weaknesses)) =>
              /\ pc = "returned" /\ result.succeeded
              /\ InList("enemy_slowed", StatusTags)

\* accuracy_mod of the call at hand: +15 hasted, -15 slowed
AccuracyModOfState ==
    (IF state.status_effects["hasted"] > 0 THEN 15 ELSE 0)
  - (IF state.status_effects["slowed"] > 0 THEN 15 ELSE 0)

\* the dodge chance as the specification states it
StatedDodgeChance ==
    state.agility * 10 + (IF state.equipped["light"] # None THEN 50 ELSE 0)
  + AccuracyModOfState
  - (IF ~state.left_leg \/ ~state.right_leg THEN 20 ELSE 0)
  - (IF state.wetness > 60 THEN 30 ELSE 0)

DodgeCall == RuleBasedCombat /\ NotStunned /\ CombatRuleOf[call.action] = "dodge"

\* C16 as stated: with agility >= 10 and accuracy_mod = 0 a dodge succeeds for
\* every roll in 1..100.
C16_DodgeCertainAtAgility10 ==
    (DodgeCall /\ state.agility >= 10 /\ AccuracyModOfState = 0) =>
        /\ pc = "returned"
        /\ result.succeeded

\* C16 as amended: the chance is not clamped and a dodge succeeds iff
\* roll < chance, so it succeeds for every roll in 1..100 exactly when
\* chance > 100; with agility 10, accuracy_mod = 0 and no light the chance is
\* at most 100 and the roll 100 fails.
C16_DodgeCertainAbove100 ==
    DodgeCall =>
        /\ pc = "returned"
        /\ result.succeeded <=> draws[1] < StatedDodgeChance
        /\ StatedDodgeChance > 100 => result.succeeded
        /\ ( /\ state.agility = 10 /\ AccuracyModOfState = 0
             /\ state.equipped["light"] = None /\ draws[1] = 100 ) =>
               ~result.succeeded

C16_Witness ==
    /\ DodgeCall
    /\ StatedDodgeChance > 100
    /\ draws[1] = 100
    /\ pc = "returned" /\ result.succeeded

\* the actor states that differ from s by one raised ability score
Raised(s) ==
    { [s EXCEPT !.strength = v] : v \in (s.strength + 1)..(MaxAbility + 1) }
    \cup { [s EXCEPT !.agility = v] : v \in (s.agility + 1)..(MaxAbility + 1) }
    \cup { [s EXCEPT !.mind = v] : v \in (s.mind + 1)..(MaxAbility + 1) }

\* the chances of the actor's own success that the block of a rule computes
\* for the actor state s against an enemy of type enemy_type, in the order the
\* block computes them (a climb that raises on the missing 'rope' slot
\* completes no chance)
OwnChances(rule, s, enemy_type) ==
    CASE rule = "dodge"    -> << DodgeChance(s) >>
      [] rule = "block"    -> << BlockChance(s) >>
      [] rule = "eye"      -> << EyeHitChance(s) >>
      [] rule = "head"     -> << HeadHitChance(s) >>
      [] rule = "throat"   -> << ThroatHitChance(s) >>
      [] rule = "feint"    -> << TrickChance(s) >>
      [] rule = "grapple"  -> << GrappleChance(s, enemy_type) >>
      [] rule = "generic"  -> << CritChance(s) >>
      [] rule = "sneak"    -> << StealthChance(s) >>
      [] rule = "search"   -> << FindChance(s) >>
      [] rule = "climb"    -> IF HasKey(s.equipped, "rope")
                              THEN << ClimbChance(s) >> ELSE << >>
      [] rule = "swim"     -> << SwimChance(s) >>
      [] rule = "persuade" -> << PersuasionChance(s) >>
      [] rule = "solve"    -> << IntelligenceChance(s) >>
      [] rule = "trap"     -> << TrapChance(s) >>
      [] rule = "break"    -> << BreakChance(s) >>
      [] rule = "listen"   -> << PerceptionChance(s) >>
      [] rule = "hide"     -> << HideChance(s) >>
      [] OTHER             -> << >>

\* every chance the block computes, the counter chance of the generic attack
\* included
AllChances(rule, s, enemy_type) ==
    IF rule = "generic" THEN OwnChances(rule, s, enemy_type) \o << CounterChance(s) >>
    ELSE OwnChances(rule, s, enemy_type)

\* the blocks a call can end in, and the enemy types of the model
RuleNames ==
    { CombatOrder[i].rule : i \in DOMAIN CombatOrder }
    \cup { ExplorationOrder[i].rule : i \in DOMAIN ExplorationOrder }
    \cup { "generic", "default", "stunned", "ai" }

EnemyTypes == { Get(e, "type", "unknown") : e \in Enemies } \cup { "unknown" }

EnemyType == IF "type" \in DOMAIN Enemy THEN Enemy["type"] ELSE "unknown"

\* the actor states that differ from s by one ability score raised by one
RaisedByOne(s) ==
    { [s EXCEPT !.strength = @ + 1], [s EXCEPT !.agility = @ + 1],
      [s EXCEPT !.mind = @ + 1] }

\* no chance that the block of the rule computes is lower for s2 than for s
NoChanceFalls(rule, s, s2, et) ==
    \A i \in DOMAIN AllChances(rule, s, et) :
        AllChances(rule, s2, et)[i] >= AllChances(rule, s, et)[i]

\* the same for the chances of the actor's own success only
NoOwnChanceFalls(rule, s, s2, et) ==
    \A i \in DOMAIN OwnChances(rule, s, et) :
        OwnChances(rule, s2, et)[i] >= OwnChances(rule, s, et)[i]

\* the counter chance is no higher for s2 than for s: each point of agility
\* lowers it by 3
CounterChanceFalls(s, s2) ==
    /\ CounterChance(s2) <= CounterChance(s)
    /\ CounterChance(s2) = CounterChance(s) - 3 * (s2.agility - s.agility)

\* C17 as stated: within any fixed branch, raising agility, strength or mind
\* while every other input stays equal never lowers any chance value the
\* branch computes, the crit and counter chances included: for the actor
\* state at hand before the call, in every branch and for every raise; after
\* the call, in the branch the call took.
C17_NoChanceFallsWithAbility ==
    /\ ~Called =>
          \A rule \in RuleNames, et \in EnemyTypes : \A s2 \in Raised(state) :
              NoChanceFalls(rule, state, s2, et)
    /\ Called =>
          \A s2 \in RaisedByOne(state) :
              NoChanceFalls(result.rule, state, s2, EnemyType)

\* C17 as amended: within any fixed branch, raising agility, strength or mind
\* while every other input stays equal never lowers a chance of the actor's
\* own success (dodge, block, eye, head, throat, feint, grapple, crit;
\* stealth, search, climb, swim, persuade, puzzle, trap, break, listen, hide);
\* the counter chance of the generic attack, which is the enemy's chance,
\* never rises, and falls by 3 for each point of agility. Checked for the
\* actor state at hand before the call in every branch and for every raise,
\* and after the call in the branch the call took.
C17_OwnChancesMonotone ==
    /\ ~Called =>
          \A s2 \in Raised(state) :
              /\ \A rule \in RuleNames, et \in EnemyTypes :
                    NoOwnChanceFalls(rule, state, s2, et)
              /\ CounterChanceFalls(state, s2)
    /\ Called =>
          \A s2 \in RaisedByOne(state) :
              /\ NoOwnChanceFalls(result.rule, state, s2, EnemyType)
              /\ result.rule = "generic" => CounterChanceFalls(state, s2)

C17_Witness ==
    /\ RuleBasedCombat /\ pc = "returned"
    /\ result.rule = "generic"
    /\ InList("critical_hit", StatusTags)
    /\ \E s2 \in Raised(state) :
          /\ CritChance(s2) > CritChance(state)
          /\ CounterChance(s2) < CounterChance(state)

GenericCall == RuleBasedCombat /\ NotStunned /\ CombatRuleOf[call.action] = "generic"

\* C18: the generic attack (combat text matching no keyword rule, actor not
\* stunned) returns succeeded = true with damage_dealt >= 1 for every actor
\* state and every roll, also when the result reports nonzero damage_taken
\* from a counter attack.
C18_GenericAttackSucceeds ==
    GenericCall =>
        /\ pc = "returned"
        /\ result.rule = "generic"
        /\ result.succeeded
        /\ DamageDealt >= 1
        /\ DamageTaken >= 0

C18_Witness ==
    /\ GenericCall
    /\ call.action = "attack"
    /\ pc = "returned" /\ result.succeeded
    /\ DamageDealt = 1
    /\ DamageTaken > 0

\* C19: in the generic attack the counter roll is made whether or not the
\* attack was a critical hit: every result of the generic attack has consumed
\* the crit roll, the damage draw and the counter roll, and a critical hit is
\* countered whenever the counter roll is below the counter chance.
C19_CounterRolledAfterCrit ==
    (GenericCall /\ pc = "returned") =>
        /\ Len(draws) >= 3
        /\ InList("critical_hit", StatusTags) =>
              (DamageTaken > 0 <=> draws[3] < CounterChance(state))

\* C20: a heal/bandage/medicine action in exploration always returns
\* succeeded = true; when the inventory holds healing herbs or medical
\* supplies it reports health_restored in 15..30 and marks for consumption an
\* item that is present in the inventory; otherwise it reports
\* health_restored in 3..8 and consumes nothing.
C20_HealConsumesPresentItem ==
    (Exploring /\ ExplorationRuleOf[call.action] = "heal") =>
        /\ pc = "returned"
        /\ result.succeeded
        /\ "health_restored" \in DOMAIN result.effects
        /\ IF \/ InList("healing herbs", state.inventory)
              \/ InList("medical supplies", state.inventory)
           THEN /\ result.effects["health_restored"] \in 15..30
                /\ "remove_item" \in DOMAIN result.effects
                /\ InList(result.effects["remove_item"], state.inventory)
           ELSE /\ result.effects["health_restored"] \in 3..8
                /\ "remove_item" \notin DOMAIN result.effects

---------------------------------------------------------------------------
(* The pools while the game runs, and what the handlers do with the effects *)

\* C12: whoever applied the effects, health stays within 0..max_health and
\* stamina within 0..max_stamina
C12_PoolsInRange ==
    /\ 0 <= state.health /\ state.health <= state.max_health
    /\ 0 <= state.stamina /\ state.stamina <= state.max_stamina

\* C13: handle_custom_action folds the effects of the action into the actor:
\* damage taken and health restored into health, the stamina cost into
\* stamina, the wetness increase into wetness, a found item into the inventory
C13_EffectsFolded ==
    [][ (pc = "custom_input" /\ pc' = "loop") =>
          LET e == result'.effects
          IN  /\ state'.health = state.health - Get(e, "damage_taken", 0)
                                             + Get(e, "health_restored", 0)
              /\ state'.stamina = state.stamina - Get(e, "stamina_cost", 0)
              /\ state'.wetness = state.wetness + Get(e, "wetness_increase", 0)
              /\ Get(e, "found_item", FALSE) =>
                     InList(e["item_name"], state'.inventory) ]_vars

---------------------------------------------------------------------------
(* Status effects over the turns *)

\* the health the active effects take in one visit of a node
TickDamage(s) ==
    (IF s.status_effects["bleeding"] > 0 THEN STATUS_DAMAGE_BLEEDING ELSE 0)
  + (IF s.status_effects["poisoned"] > 0 THEN STATUS_DAMAGE_POISONED ELSE 0)
  + (IF s.status_effects["burning"] > 0 THEN STATUS_DAMAGE_BURNING ELSE 0)
  + (IF s.status_effects["infected"] > 0 THEN STATUS_DAMAGE_INFECTED ELSE 0)

\* C21: every call of process_node_effects takes the damage of the active
\* effects and lowers each positive counter by exactly 1, a counter at 0 stays
\* at 0, no counter is ever negative, and a call of evaluate_action leaves
\* every counter as it was
C21_CountersCountDown ==
    [][ /\ \A e \in DOMAIN state.status_effects :
              state.status_effects[e] >= 0 /\ state'.status_effects[e] >= 0
        /\ state'.turn_count = state.turn_count + 1 =>
              /\ \A e \in DOMAIN state.status_effects :
                    state'.status_effects[e] =
                        IF state.status_effects[e] > 0
                        THEN state.status_effects[e] - 1 ELSE 0
              /\ state'.health <= state.health - TickDamage(state)
        /\ state'.turn_count = state.turn_count =>
              state'.status_effects = state.status_effects ]_vars

\* an infection of MaxEffectTurns turns has cost max_health on exactly that
\* many visits and is over on the visit after them
C21_Witness ==
    /\ pc = "idle"
    /\ state.turn_count = MaxEffectTurns + 1
    /\ state.status_effects["infected"] = 0
    /\ state.max_health = GameState.max_health - MaxEffectTurns * MAX_HEALTH_LOSS_INFECTED

---------------------------------------------------------------------------
(* Restart, time pressure and checkpoints in the main loop *)

\* C22: once the player has picked the choice that leads to 'restart', the
\* next iteration of the main loop runs the restart handler: a checkpoint is
\* loaded or the game starts anew at 'start' with the time pressure of 5, and
\* the loop goes on
C22_RestartReachesHandler ==
    [][ (pc = "loop" /\ current_node = "restart") =>
          /\ pc' = "loop"
          /\ \E r \in Restarted(saves) :
                state' = r.state /\ current_node' = r.current_node ]_vars

\* the death nodes check_time_pressure returns
TimeDeaths == { "death_drowning", "death_burning", "death_time_pressure" }

\* the death node for running out of time at node_id, as C23 states it
TimeDeathAt(node_id) ==
    IF In("drown", node_id) \/ In("water", node_id) \/ In("flood", node_id)
       \/ In("search", node_id)
    THEN "death_drowning"
    ELSE IF In("fire", node_id) \/ In("burn", node_id) THEN "death_burning"
    ELSE "death_time_pressure"

\* C23: while the timed scenario is active every iteration of the main loop
\* raises action_timer by 1 and, once the timer exceeds the limit, puts the
\* death node for the current node in its place (for the death node the node
\* effects chose, when the actor died of them), so a node the player is
\* shown in an active scenario is a death node or one of the first time_limit
\* visits, and no node is replaced for lack of time before that; a transition into a drainage node ends the scenario, an ended
\* scenario stays ended, and then the timer stands still
C23_TimePressure ==
    [][ /\ (state'.turn_count = state.turn_count + 1 /\ state.in_timed_scenario) =>
              /\ state'.action_timer = state.action_timer + 1
              /\ state'.in_timed_scenario
              /\ state'.action_timer > state'.time_limit =>
                    /\ current_node' \in TimeDeaths
                    /\ (state'.health > 0 /\ state'.hunger < 100) =>
                          current_node' = TimeDeathAt(current_node)
              /\ state'.action_timer <= state'.time_limit =>
                    /\ (state'.health > 0 /\ state'.hunger < 100) =>
                          current_node' = current_node
                    /\ pc' = "choice" => state'.turn_count <= state'.time_limit
        /\ ~state.in_timed_scenario =>
              /\ ~state'.in_timed_scenario
              /\ state'.action_timer = state.action_timer
        /\ (current_node' # current_node /\ In("drainage", current_node')) =>
              ~state'.in_timed_scenario ]_vars

\* the sixth iteration of a scenario with limit 5 that was never left: the
\* node the player chose is replaced by a death node
C23_Witness ==
    /\ pc = "choice"
    /\ state.in_timed_scenario
    /\ state.action_timer = state.time_limit + 1
    /\ current_node \in TimeDeaths
    /\ state.health > 0

\* the file written last
Latest(files) ==
    CHOOSE f \in { files[k] : k \in DOMAIN files } :
        \A k \in DOMAIN files : files[k].timestamp <= f.timestamp

\* C24: load_checkpoint without a number restores the checkpoint that was
\* created last, whatever checkpoints, new games and checkpoints came before
C24_LoadsLatest ==
    [][ (pc' = "loaded" /\ call'.action = "None") =>
          /\ state' = Latest(saves).state
          /\ current_node' = Latest(saves).current_node ]_vars

---------------------------------------------------------------------------
(* Where a custom action in a combat context leads *)

\* the death nodes a custom action routes to
CombatDeaths == { "death_combat", "death_combat_generic" }

\* C26: a custom action in a combat context leads to a death node when it
\* brings health to 0 or below or fails, to the victory node when it deals
\* more than 30 damage, and to the success node otherwise; a successful action
\* that leaves health above 0 never leads to a death node
C26_CombatRouting ==
    [][ (pc = "custom_input" /\ pc' = "loop" /\ call'.action # ""
         /\ Get(call'.context, "in_combat", FALSE)) =>
          LET dealt == Get(result'.effects, "damage_dealt", 0)
              lost == state'.health <= 0 \/ ~result'.succeeded
          IN  /\ lost => current_node' \in CombatDeaths
              /\ (~lost /\ dealt > 30) =>
                    current_node' = find_next_victory_node(PrevNode(state))
              /\ (~lost /\ dealt <= 30) => current_node' = "search_victim_body" ]_vars

\* C26, amended: an action that brings health to 0 or below leads to
\* death_combat; otherwise one that deals more than 30 damage leads to the
\* victory node, whether it succeeded or not; otherwise a successful one leads
\* to the success node and a failed one to death_combat_generic; so a
\* successful action that leaves health above 0 never leads to a death node
C26_CombatRoutingInOrder ==
    [][ (pc = "custom_input" /\ pc' = "loop" /\ call'.action # ""
         /\ Get(call'.context, "in_combat", FALSE)) =>
          LET dealt == Get(result'.effects, "damage_dealt", 0)
          IN  /\ current_node' =
                    IF state'.health <= 0 THEN "death_combat"
                    ELSE IF dealt > 30 THEN find_next_victory_node(PrevNode(state))
                    ELSE IF result'.succeeded THEN "search_victim_body"
                    ELSE "death_combat_generic"
              /\ (result'.succeeded /\ state'.health > 0) =>
                    current_node' \notin CombatDeaths ]_vars

\* a failed action in a fight dealt more than 30 damage, left the actor alive
\* and led to the victory node
C26_Witness ==
    /\ pc = "loop"
    /\ call.action # ""
    /\ Get(call.context, "in_combat", FALSE)
    /\ ~result.succeeded
    /\ Get(result.effects, "damage_dealt", 0) > 30
    /\ state.health > 0
    /\ current_node = "search_victim_body"

---------------------------------------------------------------------------
(* C27: in the role-playing game the victory state is reached only after the
   Shadow King has been defeated: whenever victory has run, the enemy of the
   last combat is the Shadow King and its health is 0.  The code after
   start_combat in trigger_location_event tests the player only, so a
   combat left by a successful flight counts as won: the formula is violated
   in StorySpec. *)
C27_VictoryOnlyAfterDefeat ==
    game.state = "VICTORY" =>
        (game.enemy.name = "Shadow King" /\ game.enemy.health = 0)

---------------------------------------------------------------------------
(* C29: in the role-playing game death is final: once the player's health
   is 0 in a running game, no step raises it again.  start_combat returns to
   game_loop when the player has died, and game_loop tests the player only
   after the next menu choice has been handled, so resting (or a potion)
   revives the player: the formula is violated in StorySpec. *)
C29_DeathIsFinal ==
    [][ (pc # "main_menu" /\ game.player.health = 0) => game'.player.health = 0 ]_vars

---------------------------------------------------------------------------
(* C30: after any sequence of take_damage, item use, rest, experience gain
   with level_up and combat victories the player has 0 <= health <=
   max_health and gold >= 0; take_damage removes at least 1 health or leaves
   the health at 0; rest takes 20 gold only when it raises the health, and
   takes nothing otherwise. *)
C30_PlayerInRange ==
    [][ LET before == game.player
            after == game'.player
        IN  /\ 0 <= after.health /\ after.health <= after.max_health
            /\ after.gold >= 0
            /\ pc' = "take_damage" =>
                 (after.health = 0 \/ after.health <= before.health - 1)
            /\ pc' = "rest" =>
                 \/ after = before
                 \/ /\ after.gold = before.gold - 20
                    /\ after.health > before.health ]_vars

\* rest has restored the health of a wounded player of level 2 for 20 gold
C30_Witness ==
    /\ pc = "rest"
    /\ game.player.level = 2
    /\ game.player.health = game.player.max_health
    /\ game.player.gold = 40

---------------------------------------------------------------------------
(* C28: save followed by load restores the player's progress: a load_game
   straight after save_game leaves the player (stats, gold, inventory,
   equipped weapon and armor), the location, the visited locations and the
   story flags as they were, for every item of the item table.  load_game
   looks an item up under its lowercased name with "_" for " ", which is
   not the key of "Chainmail Armor" and "Legendary Blade of Light": the
   formula is violated in SaveSpec. *)
C28_SaveLoadRoundTrip ==
    [][ (pc = "save_game" /\ pc' = "load_game") =>
          /\ game'.player = game.player
          /\ game'.current_location = game.current_location
          /\ game'.visited = game.visited
          /\ game'.story_flags = game.story_flags ]_vars

====
